---- MODULE Spec2Model ----
(***************************************************************************)
(* A model of the peer provisioning and subscription lifecycle engine of   *)
(* the WireGuard Telegram bot: the ledger (payments, subscriptions,        *)
(* devices), the local provisioner with its address allocator, the access  *)
(* gate, the billing approval and the scheduler's sweep.                   *)
(*                                                                         *)
(* Time is counted in whole days.  An IPv4 address is a tuple of four      *)
(* octets; the text the ledger stores for it (assigned_ip TEXT) is the     *)
(* sequence of its characters, so that the ledger's text ordering is the   *)
(* one SQLite applies.                                                     *)
(***************************************************************************)
EXTENDS Integers, Sequences, FiniteSets, TLC

VARIABLES
    now,            \* wall clock, in days
    payments,       \* table payments: sequence of rows, id = index
    subscriptions,  \* table subscriptions: sequence of rows, id = index
    devices,        \* table devices: sequence of committed rows, id = index
    wgPeers,        \* peers configured on the live interface: set of [key, ip]
    wgAddress,      \* the interface's own IPv4 address (the base address)
    pc,             \* position of each request goroutine
    loc,            \* local variables of each request goroutine
    dbShared,       \* goroutines whose open transaction holds SQLite's SHARED lock
    dbReserved,     \* goroutine whose open transaction holds the RESERVED lock, or 0
    sched,          \* the scheduler run: its position, its now and its row snapshot
    sshSent,        \* commands sent to the remote (DE) server: set of [cmd, key]
    users,          \* table users: set of rows
    wgConf          \* peers in the interface's saved configuration file

vars == <<now, payments, subscriptions, devices, wgPeers, wgAddress, pc, loc,
          dbShared, dbReserved, sched, sshSent, users, wgConf>>

----------------------------------------------------------------------------
(* Bounds of the model *)

\* most device rows the ledger holds in the specification Spec
MaxDevices == 3
\* last day the clock reaches
MaxTime == 64
\* most payment rows
MaxPayments == 3

\* days of grace after endsAt (AddDate(0, 0, 3))
GraceDays == 3
\* days before endsAt at which a subscription starts expiring (AddDate(0, 0, -3))
ExpiringDays == 3
\* days after the grace period at which the devices are cleaned up
CleanupDays == 30

\* request goroutines of the whole-system specification
Workers == {1, 2}
\* concurrent provisioner calls of the specification SpecAlloc
AllocWorkers == {1, 2, 3}
AllWorkers == Workers \cup AllocWorkers
\* bot users (users.id)
Users == {1}
\* the administrator, who approves the payments
Admin == 2
\* the configured admin list (ADMIN_USERNAMES), and the users who send
\* callbacks to the bot
Admins == {Admin}
Callers == Users \cup Admins
\* public keys a caller may supply to CreateDeviceWithPublicKey
SuppliedKeys == {1, 2}
\* interface addresses the allocator is anchored at
Bases == {<<10, 0, 0, 1>>, <<10, 0, 0, 8>>}
\* durations a payment is made for (the code accepts 30, 90 and 180)
Durations == {30}
\* greatest duration a payment is made for
MaxDuration == CHOOSE d \in Durations : \A e \in Durations : e <= d
\* device counts a payment is made for (the code accepts 1 .. 5)
DeviceCounts == {1, 2}

----------------------------------------------------------------------------
(* Addresses and their text *)

NoIP == <<>>

DigitChar == <<"0", "1", "2", "3", "4", "5", "6", "7", "8", "9">>

\* byte value of a character of an address text ('.' is 0x2E, '0'..'9' are 0x30..0x39)
CharCode(c) ==
    IF c = "." THEN 46
    ELSE 48 + (CHOOSE d \in 0..9 : DigitChar[d + 1] = c)

\* decimal text of one octet, no leading zeros (net.IP.String)
Digits(n) ==
    IF n < 10 THEN <<DigitChar[n + 1]>>
    ELSE IF n < 100 THEN <<DigitChar[(n \div 10) + 1], DigitChar[(n % 10) + 1]>>
    ELSE <<DigitChar[(n \div 100) + 1], DigitChar[((n \div 10) % 10) + 1],
           DigitChar[(n % 10) + 1]>>

\* net.IP.String of an IPv4 address: dotted decimal
IPString(ip) ==
    Digits(ip[1]) \o <<".">> \o Digits(ip[2]) \o <<".">> \o
    Digits(ip[3]) \o <<".">> \o Digits(ip[4])

\* net.ParseIP on a dotted-decimal text: the four octets, or NoIP (nil)
RECURSIVE ParseFrom(_, _, _, _, _)
ParseFrom(s, i, val, nd, acc) ==
    IF i > Len(s)
    THEN IF nd > 0 /\ Len(acc) = 3 THEN Append(acc, val) ELSE NoIP
    ELSE IF s[i] = "."
         THEN IF nd = 0 \/ Len(acc) >= 3 THEN NoIP
              ELSE ParseFrom(s, i + 1, 0, 0, Append(acc, val))
         ELSE LET v == val * 10 + (CharCode(s[i]) - 48)
              IN  IF v > 255 \/ (nd > 0 /\ val = 0) THEN NoIP
                  ELSE ParseFrom(s, i + 1, v, nd + 1, acc)

ParseIP(s) == ParseFrom(s, 1, 0, 0, <<>>)

\* memcmp order of two texts (SQLite's BINARY collation): a < b
RECURSIVE TextLess(_, _)
TextLess(a, b) ==
    IF a = <<>> THEN b # <<>>
    ELSE IF b = <<>> THEN FALSE
    ELSE IF CharCode(Head(a)) # CharCode(Head(b))
         THEN CharCode(Head(a)) < CharCode(Head(b))
         ELSE TextLess(Tail(a), Tail(b))

\* bytes.Compare of two 4-byte addresses: a < b
RECURSIVE BytesLess(_, _)
BytesLess(a, b) ==
    IF a = <<>> THEN b # <<>>
    ELSE IF b = <<>> THEN FALSE
    ELSE IF Head(a) # Head(b) THEN Head(a) < Head(b)
         ELSE BytesLess(Tail(a), Tail(b))

\* nextIP: the address as a 32-bit number plus inc, cut back into four bytes.
\* The sum is carried here over the two 16-bit halves, which is the same number
\* modulo 2^32.
nextIP(ip, inc) ==
    LET hi  == ip[1] * 256 + ip[2]
        lo  == ip[3] * 256 + ip[4]
        sum == lo + inc
        lo2 == sum % 65536
        hi2 == (hi + (sum \div 65536)) % 65536
    IN  <<hi2 \div 256, hi2 % 256, lo2 \div 256, lo2 % 256>>

----------------------------------------------------------------------------
(* The ledger *)

\* NULL of a nullable column
Null == -1
\* a NullString that is not Valid: the query found no row
NoText == <<>>

ActiveRows(rows) == {i \in 1..Len(rows) : rows[i].revoked_at = Null}

\* Repository.GetOrCreateUser: the row of the sender is inserted at the first
\* message or callback of theirs, and no later one changes it
GetOrCreateUser(rows, tg) ==
    IF \E r \in rows : r.telegram_id = tg THEN rows
    ELSE rows \cup {[telegram_id |-> tg]}

\* SELECT assigned_ip FROM devices WHERE revoked_at IS NULL
\*   ORDER BY assigned_ip DESC LIMIT 1
\* assigned_ip is a TEXT column, so the order is the order of the texts.
LatestAssignedIP(rows) ==
    LET texts == {rows[i].assigned_ip : i \in ActiveRows(rows)}
    IN  IF texts = {} THEN NoText
        ELSE CHOOSE s \in texts : \A t \in texts : ~TextLess(s, t)

\* a lookup by key that leaves the revoked rows out
GetActiveDeviceByPeerPublicKey(rows, key) ==
    IF \E i \in ActiveRows(rows) : rows[i].peer_public_key = key
    THEN CHOOSE i \in ActiveRows(rows) : rows[i].peer_public_key = key
    ELSE 0

\* Repository.GetDeviceByPeerPublicKey: the row with that key (revoked or not), or 0
GetDeviceByPeerPublicKey(rows, key) ==
    IF \E i \in 1..Len(rows) : rows[i].peer_public_key = key
    THEN CHOOSE i \in 1..Len(rows) : rows[i].peer_public_key = key
    ELSE 0

\* peer_public_key TEXT NOT NULL UNIQUE: would inserting key break the constraint
UniqueKeyNoViolation(rows, key) == FALSE

UniqueKeyViolation(rows, key) ==
    \E i \in 1..Len(rows) : rows[i].peer_public_key = key

\* Repository.CountActiveDevicesBySubscription
CountActiveDevicesBySubscription(rows, sid) ==
    Cardinality({i \in ActiveRows(rows) : rows[i].subscription_id = sid})

----------------------------------------------------------------------------
(* The address allocator of the local provisioner *)

\* getDeviceAddress: the first IPv4 address of the interface
getDeviceAddress == wgAddress

\* getLatestUsedIP: the greatest of the interface address and the allowed
\* addresses of the peers configured on the interface
getLatestUsedIP ==
    LET cands == {getDeviceAddress} \cup {p.ip : p \in wgPeers}
    IN  CHOOSE a \in cands : \A b \in cands : ~BytesLess(a, b)

\* getNextIPNetAtomic, with the query of the transaction failing or not, and
\* with the lookups on the interface (getLatestUsedIP, getDeviceAddress)
\* failing or not: NoIP is the error it returns when the lookup it needs fails
getNextIPNetAtomic(rows, queryFailed, addressFails) ==
    LET latestIPStr == LatestAssignedIP(rows)
        fromInterface(ip) == IF addressFails THEN NoIP ELSE ip
        lastIP ==
            IF queryFailed THEN fromInterface(getLatestUsedIP)
            ELSE IF latestIPStr # NoText
                 THEN IF ParseIP(latestIPStr) = NoIP
                      THEN fromInterface(getLatestUsedIP)
                      ELSE ParseIP(latestIPStr)
                 ELSE fromInterface(getDeviceAddress)
    IN  IF lastIP = NoIP THEN NoIP ELSE nextIP(lastIP, 1)

\* a create call that goes on whatever getNextIPNetAtomic returned
AllocationNeverFails(ip) == FALSE

\* CreateDeviceWithNewKeys, CreateDeviceWithPublicKey: if err != nil after
\* getNextIPNetAtomic
AllocationFailed(ip) == ip = NoIP

----------------------------------------------------------------------------
(* Request goroutines *)

LocInit ==
    [op |-> "none", user |-> 0, sub |-> 0, key |-> 0, ip |-> NoIP,
     pay |-> 0, days |-> 0, ends |-> 0, t |-> 0, resp |-> <<>>,
     warned |-> FALSE, name |-> <<>>, assigned_ip |-> <<>>, comment |-> 0,
     caller |-> 0]

\* positions of a goroutine inside a create call of the local provisioner
InCreate == {"begin", "precheck", "insert", "commit", "postcommit"}
\* positions of a goroutine inside a create call of the SSH provisioner
InSshCreate == {"ssh_check", "ssh_exec", "ssh_validate", "ssh_insert"}

\* A create call ends with pc = "ok" (it returns the config) or with its error:
\* "already exists", "failed to insert device", "failed to commit transaction",
\* "failed to create config", "failed to retrieve created device".

\* wgtypes.GeneratePrivateKey: a key no device row and no call in flight holds
\* (keys are numbered; the generated key is the first number not in use)
GeneratePrivateKey ==
    LET used == {devices[i].peer_public_key : i \in 1..Len(devices)}
                \cup {loc[w].key : w \in {x \in AllWorkers :
                                              pc[x] \in InCreate \cup InSshCreate}}
    IN  CHOOSE k \in 1..(Cardinality(used) + 1) :
            k \notin used /\ \A j \in 1..(k - 1) : j \in used

\* tx.Rollback (deferred): the transaction of w gives its locks back
Rollback(w) ==
    /\ dbShared' = dbShared \ {w}
    /\ dbReserved' = IF dbReserved = w THEN 0 ELSE dbReserved

\* the goroutines of the direct calls are numbered in the order they start
NextToStart(w) ==
    /\ pc[w] = "idle"
    /\ \A v \in AllocWorkers : v < w => pc[v] # "idle"

\* what a goroutine keeps of a finished call: which call it was, and whether
\* it logged the warning of a failed update of the interface
Finished(l) == [LocInit EXCEPT !.op = l.op, !.warned = l.warned]

\* LocalProvisioner.CreateDeviceWithNewKeys called directly, up to BeginTx
CallCreateDeviceWithNewKeys(w, u, s) ==
    /\ NextToStart(w)
    /\ loc' = [loc EXCEPT ![w] = [LocInit EXCEPT !.op = "newkeys", !.user = u,
                                     !.sub = s, !.key = GeneratePrivateKey]]
    /\ pc' = [pc EXCEPT ![w] = "begin"]
    /\ UNCHANGED <<now, payments, subscriptions, devices, wgPeers, wgAddress,
                   dbShared, dbReserved, sched, sshSent, users, wgConf>>

\* LocalProvisioner.CreateDeviceWithPublicKey called directly, up to BeginTx
CallCreateDeviceWithPublicKey(w, k, u, s) ==
    /\ NextToStart(w)
    /\ loc' = [loc EXCEPT ![w] = [LocInit EXCEPT !.op = "pubkey", !.user = u,
                                     !.sub = s, !.key = k]]
    /\ pc' = [pc EXCEPT ![w] = "begin"]
    /\ UNCHANGED <<now, payments, subscriptions, devices, wgPeers, wgAddress,
                   dbShared, dbReserved, sched, sshSent, users, wgConf>>

\* the call of w returns: result is "ok" or the error
Return(w, result) ==
    /\ pc' = [pc EXCEPT ![w] = result]
    /\ loc' = [loc EXCEPT ![w] = Finished(loc[w])]

\* getNextIPNetAtomic inside the transaction.  The SELECT takes the SHARED
\* lock, which the transaction keeps until it ends; a SELECT that fails takes
\* no lock and the allocator falls back on the live interface.  When the
\* allocator returns an error the call returns it, and the deferred Rollback
\* ends the transaction.
TxSelect(w, queryFailed, addressFails) ==
    /\ pc[w] = "begin"
    /\ LET ip == getNextIPNetAtomic(devices, queryFailed, addressFails)
       IN  IF AllocationFailed(ip)
           THEN /\ Return(w, "failed to get next IP")
                /\ dbShared' = dbShared \ {w}
           ELSE /\ loc' = [loc EXCEPT ![w].ip = ip]
                /\ dbShared' = IF queryFailed THEN dbShared
                               ELSE dbShared \cup {w}
                /\ pc' = [pc EXCEPT ![w] = "precheck"]
    /\ UNCHANGED <<now, payments, subscriptions, devices, wgPeers, wgAddress,
                   dbReserved, sched, sshSent, users, wgConf>>

\* the call of w goes on at position next
Goto(w, next) ==
    /\ pc' = [pc EXCEPT ![w] = next]
    /\ UNCHANGED loc

\* "Check if peer already exists": a read outside the transaction
PreCheck(w) ==
    /\ pc[w] = "precheck"
    /\ IF GetDeviceByPeerPublicKey(devices, loc[w].key) # 0
       THEN /\ Return(w, "already exists")
            /\ Rollback(w)
       ELSE /\ Goto(w, "insert")
            /\ UNCHANGED <<dbShared, dbReserved>>
    /\ UNCHANGED <<now, payments, subscriptions, devices, wgPeers, wgAddress,
                   sched, sshSent, users, wgConf>>

\* INSERT INTO devices inside the transaction: it needs the RESERVED lock
\* (SQLITE_BUSY when another transaction holds it) and the key to be unique
TxInsert(w) ==
    /\ pc[w] = "insert"
    /\ IF dbReserved \notin {0, w} \/ UniqueKeyViolation(devices, loc[w].key)
       THEN /\ Return(w, "failed to insert device")
            /\ Rollback(w)
       ELSE /\ Goto(w, "commit")
            /\ dbReserved' = w
            /\ dbShared' = dbShared \cup {w}
    /\ UNCHANGED <<now, payments, subscriptions, devices, wgPeers, wgAddress,
                   sched, sshSent, users, wgConf>>

\* the row a create call inserts
NewDeviceRow(l) ==
    [user_id |-> l.user, subscription_id |-> l.sub, peer_public_key |-> l.key,
     assigned_ip |-> IPString(l.ip), revoked_at |-> Null]

\* a create call that goes on to the interface whether its commit succeeded
\* or not
TxCommitErrorIgnored(w) ==
    /\ pc[w] = "commit"
    /\ Goto(w, "postcommit")
    /\ devices' = IF dbShared \ {w} # {} THEN devices
                  ELSE Append(devices, NewDeviceRow(loc[w]))
    /\ Rollback(w)
    /\ UNCHANGED <<now, payments, subscriptions, wgPeers, wgAddress, sched,
                   sshSent, users, wgConf>>

\* tx.Commit: it needs the EXCLUSIVE lock, which SQLite refuses (SQLITE_BUSY)
\* while another transaction still holds SHARED
TxCommit(w) ==
    /\ pc[w] = "commit"
    /\ IF dbShared \ {w} # {}
       THEN /\ Return(w, "failed to commit transaction")
            /\ UNCHANGED devices
       ELSE /\ Goto(w, "postcommit")
            /\ devices' = Append(devices, NewDeviceRow(loc[w]))
    /\ Rollback(w)
    /\ UNCHANGED <<now, payments, subscriptions, wgPeers, wgAddress, sched,
                   sshSent, users, wgConf>>

\* updateDevice: ConfigureDevice adds the peer with its allowed address (an
\* allowed address belongs to one peer of an interface at a time)
updateDevice(peers, key, ip) ==
    {p \in peers : p.ip # ip} \cup {[key |-> key, ip |-> ip]}

\* outcomes of updateDevice: it succeeds, ConfigureDevice fails (the peer is
\* not added), or "wg-quick save" fails (the peer is added, the file is not
\* written)
UpdateOutcomes == {"updated", "configure failed", "save failed"}

\* after the commit: createConfig (an error of it is returned), updateDevice
\* (an error of it is only logged, as a warning), and the last read of the row
PostCommit(w, configFails, updateOutcome) ==
    /\ pc[w] = "postcommit"
    /\ IF configFails
       THEN /\ Return(w, "failed to create config")
            /\ UNCHANGED <<wgPeers, wgConf>>
       ELSE /\ wgPeers' = IF updateOutcome = "configure failed" THEN wgPeers
                          ELSE updateDevice(wgPeers, loc[w].key, loc[w].ip)
            /\ wgConf' = IF updateOutcome = "updated" THEN wgPeers'
                         ELSE wgConf
            /\ pc' = [pc EXCEPT ![w] =
                         IF loc[w].op = "newkeys"
                            /\ GetDeviceByPeerPublicKey(devices, loc[w].key) = 0
                         THEN "failed to retrieve created device" ELSE "ok"]
            /\ loc' = [loc EXCEPT ![w] =
                         Finished([loc[w] EXCEPT
                                      !.warned = (updateOutcome # "updated")])]
    /\ UNCHANGED <<now, payments, subscriptions, devices, wgAddress,
                   dbShared, dbReserved, sched, sshSent, users>>

\* Repository.RevokeDevice: the ledger's revocation of one row
RepoRevokeDevice(rows, id, t) ==
    [rows EXCEPT ![id].revoked_at = t]

\* a revocation of one device row in the ledger.  The UPDATE is a write of
\* its own: SQLite refuses it (SQLITE_BUSY, nothing changes) while a
\* transaction holds the SHARED or the RESERVED lock.
RevokeRow(id) ==
    /\ id \in 1..Len(devices)
    /\ dbShared = {} /\ dbReserved = 0
    /\ devices' = RepoRevokeDevice(devices, id, now)
    /\ UNCHANGED <<now, payments, subscriptions, wgPeers, wgAddress, pc, loc,
                   dbShared, dbReserved, sched, sshSent, users, wgConf>>

\* a revocation that saves the configuration before it removes the peer
RevokedInterfaceSavedFirst(peers, conf, key, outcome) ==
    [peers |-> IF outcome = "configure failed" THEN peers
               ELSE {p \in peers : p.key # key},
     conf |-> IF outcome = "save failed" THEN conf ELSE peers]

\* LocalProvisioner.RevokeDevice on the interface and its configuration file:
\* ConfigureDevice removes the peer (when it fails nothing is done), then
\* "wg-quick save" writes the interface as it is now to the file (when it
\* fails the file stays as it was)
RevokedInterface(peers, conf, key, outcome) ==
    LET left == IF outcome = "configure failed" THEN peers
                ELSE {p \in peers : p.key # key}
    IN  [peers |-> left,
         conf |-> IF outcome = "updated" THEN left ELSE conf]

\* LocalProvisioner.RevokeDevice: the peer leaves the live interface and the
\* configuration is saved; no ledger row is touched
ProvisionerRevokeDevice(key, outcome) ==
    /\ \E p \in wgPeers : p.key = key
    /\ wgPeers' = RevokedInterface(wgPeers, wgConf, key, outcome).peers
    /\ wgConf' = RevokedInterface(wgPeers, wgConf, key, outcome).conf
    /\ UNCHANGED <<now, payments, subscriptions, devices, wgAddress, pc, loc,
                   dbShared, dbReserved, sched, sshSent, users>>

----------------------------------------------------------------------------
(* The provisioner alone: concurrent calls against an empty ledger *)

\* the three passes of a run, in the order run makes them
PassOrder ==
    <<"updateSubscriptionStatuses", "sendNotifications", "revokeExpiredDevices">>

\* the scheduler before Start: no run in progress, the loop not started, the
\* stop channel open, the context alive, no tick waiting in ticker.C and no
\* run goroutine created
SchedInit ==
    [pc |-> "idle", now |-> 0, snap |-> <<>>, passes |-> <<>>, failed |-> {},
     loop |-> "off", running |-> FALSE, stopped |-> FALSE,
     cancelled |-> FALSE, tick |-> FALSE, spawned |-> 0]

InitAlloc ==
    /\ now = 0
    /\ payments = <<>>
    /\ subscriptions = <<>>
    /\ devices = <<>>
    /\ wgPeers = {}
    /\ wgAddress \in Bases
    /\ pc = [w \in AllWorkers |-> "idle"]
    /\ loc = [w \in AllWorkers |-> LocInit]
    /\ dbShared = {}
    /\ dbReserved = 0
    /\ sched = SchedInit
    /\ sshSent = {}
    /\ users = {}
    /\ wgConf = {}

NextAlloc ==
    \/ \E w \in AllocWorkers : CallCreateDeviceWithNewKeys(w, 1, 1)
    \/ \E w \in AllocWorkers, k \in SuppliedKeys :
           CallCreateDeviceWithPublicKey(w, k, 1, 1)
    \/ \E w \in AllocWorkers, queryFailed \in BOOLEAN, addressFails \in BOOLEAN :
           TxSelect(w, queryFailed, addressFails)
    \/ \E w \in AllocWorkers : PreCheck(w)
    \/ \E w \in AllocWorkers : TxInsert(w)
    \/ \E w \in AllocWorkers : TxCommit(w)
    \/ \E w \in AllocWorkers, configFails \in BOOLEAN,
             updateOutcome \in UpdateOutcomes :
           PostCommit(w, configFails, updateOutcome)
    \/ \E id \in 1..Len(devices) : RevokeRow(id)
    \/ \E k \in SuppliedKeys, outcome \in UpdateOutcomes :
           ProvisionerRevokeDevice(k, outcome)

SpecAlloc == InitAlloc /\ [][NextAlloc]_vars

----------------------------------------------------------------------------
(* The SSH provisioner: the peers live on the remote (DE) server *)

\* calls in flight against the remote backend
SshWorkers == {1, 2}
\* addresses the remote server assigns
RemoteIPs == {<<10, 0, 0, 2>>, <<10, 0, 0, 3>>}

Slash32 == <<"/", "3", "2">>

\* texts the remote server answers in assigned_ip: an address, an address
\* with the /32 suffix, and texts that are no single-host address
AssignedIPTexts ==
    {<<>>, Slash32, <<"1", "0", ".", "0", ".", "0">>}
    \cup {IPString(a) : a \in RemoteIPs}
    \cup {IPString(a) \o Slash32 : a \in RemoteIPs}
    \cup {IPString(a) \o <<"/", "2", "4">> : a \in RemoteIPs}
    \cup {IPString(a) \o Slash32 \o Slash32 : a \in RemoteIPs}

\* createResponse: what json.Unmarshal leaves in the struct (a field the
\* answer lacks is the empty string)
CreateResponses ==
    [assigned_ip : AssignedIPTexts, server_public_key : {"", "srvkey"},
     endpoint : {"", "de:51820"}, dns : {"", "1.1.1.1"}]

\* no response: the command gave no output that is JSON
NoResponse == <<>>

\* strings.TrimSuffix
TrimSuffix(s, suffix) ==
    IF Len(s) >= Len(suffix)
       /\ SubSeq(s, Len(s) - Len(suffix) + 1, Len(s)) = suffix
    THEN SubSeq(s, 1, Len(s) - Len(suffix))
    ELSE s

\* strings.Contains(s, c) for a one-character c
Contains(s, c) == \E i \in 1..Len(s) : s[i] = c

\* a parse that checks the text as parseAssignedIP does and returns it as
\* the remote server sent it
parseAssignedIPKeepingSuffix(assignedIP) ==
    IF assignedIP = <<>> THEN NoText
    ELSE LET ip == TrimSuffix(assignedIP, Slash32)
         IN  IF Contains(ip, "/") THEN NoText
             ELSE IF ParseIP(ip) = NoIP THEN NoText
             ELSE assignedIP

\* parseAssignedIP: the clean address text, or NoText for its error
parseAssignedIP(assignedIP) ==
    IF assignedIP = <<>> THEN NoText
    ELSE LET ip == TrimSuffix(assignedIP, Slash32)
         IN  IF Contains(ip, "/") THEN NoText
             ELSE IF ParseIP(ip) = NoIP THEN NoText
             ELSE ip

\* a validation of the response that does not look at dns
ResponseHasFieldsButDNS(resp) ==
    ~(resp.assigned_ip = <<>> \/ resp.server_public_key = ""
      \/ resp.endpoint = "")

\* "Validate response": no required field is empty
ResponseHasFields(resp) ==
    ~(resp.assigned_ip = <<>> \/ resp.server_public_key = ""
      \/ resp.endpoint = "" \/ resp.dns = "")

\* the character \x00
NUL == "NUL"

\* device names a create call of the remote backend is given
DeviceNames ==
    {<<"d">>, <<"d", "\n">>, <<"\r", "d">>, <<NUL>>, <<"d", "\t">>}

\* "Sanitize arguments": the test executeSSHCommand makes of an argument
ContainsControlCharacters(arg) ==
    Contains(arg, "\n") \/ Contains(arg, "\r") \/ Contains(arg, NUL)

\* SSHProvisioner.CreateDeviceWithNewKeys called, up to the key generation
CallSshCreateDeviceWithNewKeys(w, u, s, deviceName) ==
    /\ NextToStart(w)
    /\ loc' = [loc EXCEPT ![w] = [LocInit EXCEPT !.op = "ssh_newkeys", !.user = u,
                                     !.sub = s, !.key = GeneratePrivateKey,
                                     !.name = deviceName]]
    /\ pc' = [pc EXCEPT ![w] = "ssh_check"]
    /\ UNCHANGED <<now, payments, subscriptions, devices, wgPeers, wgAddress,
                   dbShared, dbReserved, sched, sshSent, users, wgConf>>

\* SSHProvisioner.CreateDeviceWithPublicKey called, up to the key parsing
CallSshCreateDeviceWithPublicKey(w, k, u, s, deviceName) ==
    /\ NextToStart(w)
    /\ loc' = [loc EXCEPT ![w] = [LocInit EXCEPT !.op = "ssh_pubkey", !.user = u,
                                     !.sub = s, !.key = k,
                                     !.name = deviceName]]
    /\ pc' = [pc EXCEPT ![w] = "ssh_check"]
    /\ UNCHANGED <<now, payments, subscriptions, devices, wgPeers, wgAddress,
                   dbShared, dbReserved, sched, sshSent, users, wgConf>>

\* a create call that sends its command without looking the key up
SshNoCheck(w) ==
    /\ pc[w] = "ssh_check"
    /\ Goto(w, "ssh_exec")
    /\ UNCHANGED <<now, payments, subscriptions, devices, wgPeers, wgAddress,
                   dbShared, dbReserved, sched, sshSent, users, wgConf>>

\* "Check if peer already exists (before calling DE server)"
SshCheck(w) ==
    /\ pc[w] = "ssh_check"
    /\ IF GetDeviceByPeerPublicKey(devices, loc[w].key) # 0
       THEN Return(w, "already exists")
       ELSE Goto(w, "ssh_exec")
    /\ UNCHANGED <<now, payments, subscriptions, devices, wgPeers, wgAddress,
                   dbShared, dbReserved, sched, sshSent, users, wgConf>>

\* executeSSHCommand("create", ...) and json.Unmarshal of its output.  The
\* outcome is "unreachable" (no client or no session: nothing is sent),
\* "failed" (the command was run and ended with an error), "not_json" or
\* "json".  The arguments are tested once the client is there and before
\* the command is built; of the arguments only the device name is free text.
\* The rows of the model carry no device name, and the name is dropped from
\* the call's locals once the command is sent.
SshExec(w, outcome, resp) ==
    /\ pc[w] = "ssh_exec"
    /\ sshSent' = IF outcome = "unreachable"
                     \/ ContainsControlCharacters(loc[w].name)
                  THEN sshSent
                  ELSE sshSent \cup {[cmd |-> "create", key |-> loc[w].key]}
    /\ IF outcome = "unreachable"
       THEN Return(w, "failed to create peer on DE server")
       ELSE IF ContainsControlCharacters(loc[w].name)
       THEN Return(w, "invalid argument contains control characters")
       ELSE IF outcome = "failed"
       THEN Return(w, "failed to create peer on DE server")
       ELSE IF outcome = "not_json"
       THEN Return(w, "failed to parse JSON response from DE server")
       ELSE /\ pc' = [pc EXCEPT ![w] = "ssh_validate"]
            /\ loc' = [loc EXCEPT ![w].resp = resp, ![w].name = <<>>]
    /\ UNCHANGED <<now, payments, subscriptions, devices, wgPeers, wgAddress,
                   dbShared, dbReserved, sched, users, wgConf>>

\* the validation of the response and parseAssignedIP
SshValidate(w) ==
    /\ pc[w] = "ssh_validate"
    /\ IF ~ResponseHasFields(loc[w].resp)
       THEN Return(w, "invalid response from DE server")
       ELSE IF parseAssignedIP(loc[w].resp.assigned_ip) = NoText
       THEN Return(w, "failed to parse assigned_ip from DE server")
       ELSE Goto(w, "ssh_insert")
    /\ UNCHANGED <<now, payments, subscriptions, devices, wgPeers, wgAddress,
                   dbShared, dbReserved, sched, sshSent, users, wgConf>>

\* the row a create call of the SSH provisioner inserts
NewSshDeviceRow(l) ==
    [user_id |-> l.user, subscription_id |-> l.sub, peer_public_key |-> l.key,
     assigned_ip |-> parseAssignedIP(l.resp.assigned_ip), revoked_at |-> Null]

\* Repository.CreateDevice (the key must be unique), then createClientConfig
SshInsert(w, configFails) ==
    /\ pc[w] = "ssh_insert"
    /\ IF UniqueKeyViolation(devices, loc[w].key)
       THEN /\ Return(w, "failed to insert device to DB")
            /\ UNCHANGED devices
       ELSE /\ devices' = Append(devices, NewSshDeviceRow(loc[w]))
            /\ Return(w, IF configFails THEN "failed to generate client config"
                         ELSE "ok")
    /\ UNCHANGED <<now, payments, subscriptions, wgPeers, wgAddress,
                   dbShared, dbReserved, sched, sshSent, users, wgConf>>

\* positions of a goroutine inside a revoke call of the SSH provisioner
InSshRevoke == {"ssh_revoke_exec", "ssh_revoke_verify"}

\* revokeResponse: what json.Unmarshal leaves in the struct (an answer
\* without ok leaves false)
RevokeResponses == [ok : BOOLEAN]

\* SSHProvisioner.RevokeDevice called, up to the command: the row with the
\* key is read for its address
CallSshRevokeDevice(w, peerPublicKey, queryFails) ==
    /\ NextToStart(w)
    /\ LET device == GetDeviceByPeerPublicKey(devices, peerPublicKey)
           l == [LocInit EXCEPT !.op = "ssh_revoke", !.key = peerPublicKey]
       IN  IF queryFails
           THEN /\ pc' = [pc EXCEPT ![w] = "failed to get device from DB"]
                /\ loc' = [loc EXCEPT ![w] = Finished(l)]
           ELSE IF device = 0
           THEN /\ pc' = [pc EXCEPT ![w] = "device not found in DB"]
                /\ loc' = [loc EXCEPT ![w] = Finished(l)]
           ELSE IF devices[device].assigned_ip = <<>>
           THEN /\ pc' = [pc EXCEPT ![w] = "device has no assigned IP"]
                /\ loc' = [loc EXCEPT ![w] = Finished(l)]
           ELSE /\ pc' = [pc EXCEPT ![w] = "ssh_revoke_exec"]
                /\ loc' = [loc EXCEPT ![w] =
                               [l EXCEPT !.assigned_ip = devices[device].assigned_ip]]
    /\ UNCHANGED <<now, payments, subscriptions, devices, wgPeers, wgAddress,
                   dbShared, dbReserved, sched, sshSent, users, wgConf>>

\* executeSSHCommand("revoke", "--assigned-ip", ...) and json.Unmarshal of
\* its output, with the outcomes of SshExec
SshRevokeExec(w, outcome, resp) ==
    /\ pc[w] = "ssh_revoke_exec"
    /\ sshSent' = IF outcome = "unreachable"
                     \/ ContainsControlCharacters(loc[w].assigned_ip)
                  THEN sshSent
                  ELSE sshSent \cup {[cmd |-> "revoke",
                                       assigned_ip |-> loc[w].assigned_ip]}
    /\ IF outcome = "unreachable"
       THEN Return(w, "failed to revoke peer on DE server")
       ELSE IF ContainsControlCharacters(loc[w].assigned_ip)
       THEN Return(w, "invalid argument contains control characters")
       ELSE IF outcome = "failed"
       THEN Return(w, "failed to revoke peer on DE server")
       ELSE IF outcome = "not_json"
       THEN Return(w, "failed to parse JSON response from DE server")
       ELSE /\ pc' = [pc EXCEPT ![w] = "ssh_revoke_verify"]
            /\ loc' = [loc EXCEPT ![w].resp = resp]
    /\ UNCHANGED <<now, payments, subscriptions, devices, wgPeers, wgAddress,
                   dbShared, dbReserved, sched, users, wgConf>>

\* a revoke call that does not look at the answer's ok
SshRevokeVerifyAnyAnswer(w) ==
    /\ pc[w] = "ssh_revoke_verify"
    /\ Return(w, "revoked")
    /\ UNCHANGED <<now, payments, subscriptions, devices, wgPeers, wgAddress,
                   dbShared, dbReserved, sched, sshSent, users, wgConf>>

\* "Verify response": the call returns nil (here "revoked") if ok is true
SshRevokeVerify(w) ==
    /\ pc[w] = "ssh_revoke_verify"
    /\ IF ~loc[w].resp.ok
       THEN Return(w, "DE server returned ok=false")
       ELSE Return(w, "revoked")
    /\ UNCHANGED <<now, payments, subscriptions, devices, wgPeers, wgAddress,
                   dbShared, dbReserved, sched, sshSent, users, wgConf>>

NextRemote ==
    \/ \E w \in SshWorkers, deviceName \in DeviceNames :
           CallSshCreateDeviceWithNewKeys(w, 1, 1, deviceName)
    \/ \E w \in SshWorkers, k \in SuppliedKeys, deviceName \in DeviceNames :
           CallSshCreateDeviceWithPublicKey(w, k, 1, 1, deviceName)
    \/ \E w \in SshWorkers : SshCheck(w)
    \/ \E w \in SshWorkers, outcome \in {"unreachable", "failed", "not_json"} :
           SshExec(w, outcome, NoResponse)
    \/ \E w \in SshWorkers, resp \in CreateResponses : SshExec(w, "json", resp)
    \/ \E w \in SshWorkers : SshValidate(w)
    \/ \E w \in SshWorkers, configFails \in BOOLEAN : SshInsert(w, configFails)
    \/ \E id \in 1..Len(devices) : RevokeRow(id)
    \/ \E w \in SshWorkers, k \in SuppliedKeys, queryFails \in BOOLEAN :
           CallSshRevokeDevice(w, k, queryFails)
    \/ \E w \in SshWorkers, outcome \in {"unreachable", "failed", "not_json"} :
           SshRevokeExec(w, outcome, NoResponse)
    \/ \E w \in SshWorkers, resp \in RevokeResponses : SshRevokeExec(w, "json", resp)
    \/ \E w \in SshWorkers : SshRevokeVerify(w)

SpecRemote == InitAlloc /\ [][NextRemote]_vars

\* the bot runs with one backend, chosen when it starts: every call goes to
\* the local provisioner or every call goes to the SSH provisioner
LocalBackend ==
    \A w \in AllWorkers : loc[w].op \notin {"ssh_newkeys", "ssh_pubkey", "ssh_revoke"}
RemoteBackend == \A w \in AllWorkers : loc[w].op \notin {"newkeys", "pubkey"}

NextBackends ==
    \/ LocalBackend /\ NextAlloc
    \/ RemoteBackend /\ NextRemote

SpecBackends == InitAlloc /\ [][NextBackends]_vars

----------------------------------------------------------------------------
(* Properties of the allocator and of the device rows *)

\* texts of the addresses of the non-revoked rows
AssignedAddresses(rows) == {rows[i].assigned_ip : i \in ActiveRows(rows)}

\* C1: when every one of the N concurrent CreateDeviceWithNewKeys calls against
\* an empty ledger at base address A has completed, the ledger holds exactly N
\* non-revoked rows and their addresses are exactly A+1 .. A+N.
C1_ConcurrentCreatesGetConsecutiveAddresses ==
    LET N == Cardinality(AllocWorkers)
    IN  (/\ \A w \in AllocWorkers : pc[w] = "ok" /\ loc[w].op = "newkeys"
         /\ ActiveRows(devices) = 1..Len(devices))
        => /\ Len(devices) = N
           /\ Cardinality(AssignedAddresses(devices)) = N
           /\ AssignedAddresses(devices) =
                  {IPString(nextIP(wgAddress, k)) : k \in 1..N}

\* C2: no two non-revoked device rows hold the same assigned address.
C2_AssignedAddressesDistinct ==
    \A i, j \in ActiveRows(devices) :
        i # j => devices[i].assigned_ip # devices[j].assigned_ip

\* C5: no two non-revoked device rows hold the same peer public key.
C5_PeerPublicKeysDistinct ==
    \A i, j \in ActiveRows(devices) :
        i # j => devices[i].peer_public_key # devices[j].peer_public_key

\* a second create with a key that a non-revoked row holds was refused, by the
\* pre-check or by the constraint, while the ledger holds several rows
C5_DuplicateKeyRefused ==
    /\ Cardinality(ActiveRows(devices)) >= 2
    /\ \E i \in ActiveRows(devices) : devices[i].peer_public_key \in SuppliedKeys
    /\ \E w \in AllocWorkers :
           /\ loc[w].op = "pubkey"
           /\ pc[w] \in {"already exists", "failed to insert device"}

----------------------------------------------------------------------------
(* Payments and subscriptions *)

LiveStatuses == {"active", "expiring", "paused"}

\* Repository.GetActiveSubscriptionByUserID: the id of the most recently
\* created subscription of the user in a live status, or 0.  Rows are created
\* in the order of their ids.
GetActiveSubscriptionByUserID(subs, u) ==
    LET live == {i \in 1..Len(subs) :
                    subs[i].user_id = u /\ subs[i].status \in LiveStatuses}
    IN  IF live = {} THEN 0
        ELSE CHOOSE i \in live : \A j \in live : j <= i

\* Repository.GetPaymentsByUserIDAndStatus: ids of the user's payments in status st
GetPaymentsByUserIDAndStatus(pays, u, st) ==
    {i \in 1..Len(pays) : pays[i].user_id = u /\ pays[i].status = st}

\* Repository.UpdatePaymentStatus
UpdatePaymentStatus(pays, id, st) == [pays EXCEPT ![id].status = st]

\* a new row whose grace_period_ends_at is left unset
NewSubscriptionRowWithoutGrace(pay, t) ==
    [user_id |-> pay.user_id, duration_days |-> pay.duration_days,
     device_limit |-> pay.device_count, status |-> "active",
     starts_at |-> t, ends_at |-> t + pay.duration_days,
     grace_period_ends_at |-> Null]

\* the row AdminApprovePayment creates for a user without live subscription
NewSubscriptionRow(pay, t) ==
    [user_id |-> pay.user_id, duration_days |-> pay.duration_days,
     device_limit |-> pay.device_count, status |-> "active",
     starts_at |-> t, ends_at |-> t + pay.duration_days,
     grace_period_ends_at |-> t + pay.duration_days + GraceDays]

\* an extension that leaves grace_period_ends_at as it was
ExtendSubscriptionKeepsGrace(subs, id, readEndsAt, days) ==
    [subs EXCEPT ![id] =
        [@ EXCEPT !.duration_days = @ + days,
                  !.ends_at = readEndsAt + days,
                  !.status = "active"]]

\* an extension that starts the subscription's period anew at its old end
ExtendSubscriptionRestarts(subs, id, readEndsAt, days) ==
    [subs EXCEPT ![id] =
        [@ EXCEPT !.duration_days = @ + days,
                  !.starts_at = readEndsAt,
                  !.ends_at = readEndsAt + days,
                  !.grace_period_ends_at = readEndsAt + days + GraceDays,
                  !.status = "active"]]

\* Repository.ExtendSubscription, its UPDATE: readEndsAt is the ends_at its
\* GetSubscriptionByID read before
ExtendSubscription(subs, id, readEndsAt, days) ==
    [subs EXCEPT ![id] =
        [@ EXCEPT !.duration_days = @ + days,
                  !.ends_at = readEndsAt + days,
                  !.grace_period_ends_at = readEndsAt + days + GraceDays,
                  !.status = "active"]]

\* Repository.UpdateSubscriptionStatus on a row: the status alone
UpdateSubscriptionStatus(row, st) == [row EXCEPT !.status = st]

----------------------------------------------------------------------------
(* The access gate *)

Allow == "allow"

\* a gate that does not count the devices
CanProvisionDeviceNoLimit(subs, devs, u, t) ==
    LET id == GetActiveSubscriptionByUserID(subs, u)
    IN  IF id = 0 THEN "no subscription"
        ELSE IF subs[id].status = "paused"
             THEN IF t > subs[id].grace_period_ends_at THEN "expired" ELSE "paused"
             ELSE IF t > subs[id].ends_at THEN "expired" ELSE Allow

\* access.Service.CanProvisionDevice at time t: "allow" or the reason of the
\* denial: "no subscription", "expired", "paused" or "device limit reached"
CanProvisionDevice(subs, devs, u, t) ==
    LET id == GetActiveSubscriptionByUserID(subs, u)
    IN  IF id = 0 THEN "no subscription"
        ELSE LET sub == subs[id]
             IN  IF sub.status = "expired" THEN "expired"
                 ELSE IF sub.status = "paused"
                      THEN IF sub.grace_period_ends_at # Null
                              /\ t > sub.grace_period_ends_at
                           THEN "expired" ELSE "paused"
                 ELSE IF t > sub.ends_at THEN "expired"
                 ELSE IF CountActiveDevicesBySubscription(devs, id)
                            >= sub.device_limit
                      THEN "device limit reached"
                 ELSE Allow


----------------------------------------------------------------------------
(* The bot's handlers, each on its own goroutine *)

\* positions of a goroutine inside a handler, before its create call
InHandler ==
    {"approve_mark", "approve_getsub", "extend_read", "extend_write",
     "create_sub", "approve_device", "newkeys_sub"}

\* position of a goroutine inside AdminRejectPayment, before its write
InReject == {"reject_mark"}

Busy(w) == pc[w] \in InHandler \cup InCreate \cup InReject

\* the ledger holds at most MaxDevices device rows: a handler that may create
\* one starts only while there is room for it
RoomForDevice ==
    Len(devices) + Cardinality({w \in Workers : pc[w] \in InHandler \cup InCreate})
        < MaxDevices

\* GeneratePaymentComment: a comment no earlier payment has (comments are
\* numbered; the generated one is the number of the new payment)
GeneratePaymentComment(pays) == Len(pays) + 1

\* the empty verified comment of an "approve:<id>" callback
NoComment == 0
\* comments an approve callback carries
Comments == 0..MaxPayments

\* a check that lets every user through
isAdminAnyUser(user) == TRUE

\* Bot.isAdmin: the username is in the admin list, and the list is not empty
isAdmin(user) == Admins # {} /\ user \in Admins

\* handleDeviceCountSelection: billing.CreatePaymentAttempt inserts the payment
CreatePaymentAttempt(u, d, c) ==
    /\ Len(payments) < MaxPayments
    /\ payments' = Append(payments,
           [user_id |-> u, duration_days |-> d, device_count |-> c,
            status |-> "created",
            payment_comment |-> GeneratePaymentComment(payments)])
    /\ users' = GetOrCreateUser(users, u)
    /\ UNCHANGED <<now, subscriptions, devices, wgPeers, wgAddress, pc, loc,
                   dbShared, dbReserved, sched, sshSent, wgConf>>

\* handlePaymentProof ("I paid"): unless a payment of the user is in review
\* already, the user's latest created payment goes to pending_review
handlePaymentProof(u) ==
    /\ GetPaymentsByUserIDAndStatus(payments, u, "pending_review") = {}
    /\ GetPaymentsByUserIDAndStatus(payments, u, "created") # {}
    /\ LET created == GetPaymentsByUserIDAndStatus(payments, u, "created")
           latest == CHOOSE i \in created : \A j \in created : j <= i
       IN  payments' = UpdatePaymentStatus(payments, latest, "pending_review")
    /\ users' = GetOrCreateUser(users, u)
    /\ UNCHANGED <<now, subscriptions, devices, wgPeers, wgAddress, pc, loc,
                   dbShared, dbReserved, sched, sshSent, wgConf>>

\* handlePhoto: the created payment of the user that the caption names (or the
\* latest one) gets the proof and goes to pending_review
handlePhoto(u, id) ==
    /\ id \in GetPaymentsByUserIDAndStatus(payments, u, "created")
    /\ payments' = UpdatePaymentStatus(payments, id, "pending_review")
    /\ UNCHANGED <<now, subscriptions, devices, wgPeers, wgAddress, pc, loc,
                   dbShared, dbReserved, sched, sshSent, users, wgConf>>

\* handleConfigForNewKeys, its access check
NewKeysCheck(w, u) ==
    /\ ~Busy(w)
    /\ RoomForDevice
    /\ LET r == CanProvisionDevice(subscriptions, devices, u, now)
       IN  IF r = Allow
           THEN /\ pc' = [pc EXCEPT ![w] = "newkeys_sub"]
                /\ loc' = [loc EXCEPT ![w] =
                       [LocInit EXCEPT !.op = "gate", !.user = u]]
           ELSE /\ pc' = [pc EXCEPT ![w] = r]
                /\ loc' = [loc EXCEPT ![w] = [LocInit EXCEPT !.op = "gate"]]
    /\ users' = GetOrCreateUser(users, u)
    /\ UNCHANGED <<now, payments, subscriptions, devices, wgPeers, wgAddress,
                   dbShared, dbReserved, sched, sshSent, wgConf>>

\* handleConfigForNewKeys after the check: it reads the subscription again and
\* calls CreateConfigForNewKeys for it
NewKeysSub(w) ==
    /\ pc[w] = "newkeys_sub"
    /\ LET id == GetActiveSubscriptionByUserID(subscriptions, loc[w].user)
       IN  IF id = 0
           THEN Return(w, "subscription not found")
           ELSE /\ pc' = [pc EXCEPT ![w] = "begin"]
                /\ loc' = [loc EXCEPT ![w] =
                       [LocInit EXCEPT !.op = "newkeys", !.user = loc[w].user,
                                       !.sub = id, !.key = GeneratePrivateKey]]
    /\ UNCHANGED <<now, payments, subscriptions, devices, wgPeers, wgAddress,
                   dbShared, dbReserved, sched, sshSent, users, wgConf>>

\* a comparison that accepts every comment
CommentMismatchNever(verifiedComment, paymentComment) == FALSE

\* AdminApprovePayment, its comparison of the comments
CommentMismatch(verifiedComment, paymentComment) ==
    verifiedComment # paymentComment

\* handleQuery for the callback of user caller, then handleApprovePayment
\* ("approve:<id>:<comment>"; with the empty comment it takes the payment's
\* own, as handleAdminApprovePayment always does) up to the checks of
\* AdminApprovePayment
ApproveStart(w, id, caller, verifiedComment) ==
    /\ ~Busy(w)
    /\ RoomForDevice
    /\ id \in 1..Len(payments)
    /\ LET comment == IF verifiedComment = NoComment
                      THEN payments[id].payment_comment ELSE verifiedComment
           result == IF ~isAdmin(caller) THEN "not an admin"
                     ELSE IF payments[id].status # "pending_review"
                     THEN "not pending_review"
                     ELSE IF CommentMismatch(comment, payments[id].payment_comment)
                     THEN "payment comment mismatch"
                     ELSE "approve_mark"
       IN  /\ pc' = [pc EXCEPT ![w] = result]
           /\ loc' = [loc EXCEPT ![w] =
                  IF result \in {"approve_mark", "payment comment mismatch"}
                  THEN [LocInit EXCEPT !.op = "approve", !.pay = id,
                                       !.comment = comment,
                                       !.caller = caller]
                  ELSE [LocInit EXCEPT !.op = "approve", !.caller = caller]]
    /\ users' = GetOrCreateUser(users, caller)
    /\ UNCHANGED <<now, payments, subscriptions, devices, wgPeers, wgAddress,
                   dbShared, dbReserved, sched, sshSent, wgConf>>

\* AdminApprovePayment: UpdatePaymentStatus(approved)
ApproveMark(w) ==
    /\ pc[w] = "approve_mark"
    /\ payments' = UpdatePaymentStatus(payments, loc[w].pay, "approved")
    /\ Goto(w, "approve_getsub")
    /\ UNCHANGED <<now, subscriptions, devices, wgPeers, wgAddress,
                   dbShared, dbReserved, sched, sshSent, users, wgConf>>

\* handleQuery for the callback of user caller, then handleRejectPayment or
\* handleAdminRejectPayment up to the status check of AdminRejectPayment
RejectStart(w, id, caller) ==
    /\ ~Busy(w)
    /\ id \in 1..Len(payments)
    /\ LET result == IF ~isAdmin(caller) THEN "not an admin"
                     ELSE IF payments[id].status # "pending_review"
                     THEN "not pending_review"
                     ELSE "reject_mark"
       IN  /\ pc' = [pc EXCEPT ![w] = result]
           /\ loc' = [loc EXCEPT ![w] =
                  IF result = "reject_mark"
                  THEN [LocInit EXCEPT !.op = "reject", !.pay = id,
                                       !.caller = caller]
                  ELSE [LocInit EXCEPT !.op = "reject", !.caller = caller]]
    /\ users' = GetOrCreateUser(users, caller)
    /\ UNCHANGED <<now, payments, subscriptions, devices, wgPeers, wgAddress,
                   dbShared, dbReserved, sched, sshSent, wgConf>>

\* AdminRejectPayment: UpdatePaymentStatus(rejected)
RejectMark(w) ==
    /\ pc[w] = "reject_mark"
    /\ payments' = UpdatePaymentStatus(payments, loc[w].pay, "rejected")
    /\ Return(w, "rejected")
    /\ UNCHANGED <<now, subscriptions, devices, wgPeers, wgAddress,
                   dbShared, dbReserved, sched, sshSent, users, wgConf>>

\* AdminApprovePayment: GetActiveSubscriptionByUserID and now := time.Now()
ApproveGetSub(w) ==
    /\ pc[w] = "approve_getsub"
    /\ LET id == GetActiveSubscriptionByUserID(subscriptions,
                                               payments[loc[w].pay].user_id)
       IN  IF id # 0
           THEN /\ pc' = [pc EXCEPT ![w] = "extend_read"]
                /\ loc' = [loc EXCEPT ![w].sub = id]
           ELSE /\ pc' = [pc EXCEPT ![w] = "create_sub"]
                /\ loc' = [loc EXCEPT ![w].t = now]
    /\ UNCHANGED <<now, payments, subscriptions, devices, wgPeers, wgAddress,
                   dbShared, dbReserved, sched, sshSent, users, wgConf>>

\* ExtendSubscription: GetSubscriptionByID
ExtendRead(w) ==
    /\ pc[w] = "extend_read"
    /\ pc' = [pc EXCEPT ![w] = "extend_write"]
    /\ loc' = [loc EXCEPT ![w].ends = subscriptions[loc[w].sub].ends_at]
    /\ UNCHANGED <<now, payments, subscriptions, devices, wgPeers, wgAddress,
                   dbShared, dbReserved, sched, sshSent, users, wgConf>>

\* ExtendSubscription: the UPDATE
ExtendWrite(w) ==
    /\ pc[w] = "extend_write"
    /\ subscriptions' = ExtendSubscription(subscriptions, loc[w].sub, loc[w].ends,
                                           payments[loc[w].pay].duration_days)
    /\ pc' = [pc EXCEPT ![w] = "approve_device"]
    /\ loc' = [loc EXCEPT ![w].ends = 0, ![w].sub = 0]
    /\ UNCHANGED <<now, payments, devices, wgPeers, wgAddress,
                   dbShared, dbReserved, sched, sshSent, users, wgConf>>

\* AdminApprovePayment without live subscription: CreateSubscription
CreateSub(w) ==
    /\ pc[w] = "create_sub"
    /\ subscriptions' = Append(subscriptions,
                               NewSubscriptionRow(payments[loc[w].pay], loc[w].t))
    /\ pc' = [pc EXCEPT ![w] = "approve_device"]
    /\ loc' = [loc EXCEPT ![w].t = 0]
    /\ UNCHANGED <<now, payments, devices, wgPeers, wgAddress,
                   dbShared, dbReserved, sched, sshSent, users, wgConf>>

\* handleAdminApprovePayment after the approval: it reads the user's live
\* subscription and creates a device for it
ApproveDevice(w) ==
    /\ pc[w] = "approve_device"
    /\ LET u == payments[loc[w].pay].user_id
           id == GetActiveSubscriptionByUserID(subscriptions, u)
       IN  IF id = 0
           THEN Return(w, "approved")
           ELSE /\ pc' = [pc EXCEPT ![w] = "begin"]
                /\ loc' = [loc EXCEPT ![w] =
                       [LocInit EXCEPT !.op = "newkeys", !.user = u,
                                       !.sub = id, !.key = GeneratePrivateKey]]
    /\ UNCHANGED <<now, payments, subscriptions, devices, wgPeers, wgAddress,
                   dbShared, dbReserved, sched, sshSent, users, wgConf>>

----------------------------------------------------------------------------
(* The scheduler *)

\* a sweep that goes on applying its rules to a row until none applies
NewStatusCascade(sub, t) ==
    LET expiring == t > sub.ends_at - ExpiringDays /\ t < sub.ends_at
        paused == t > sub.ends_at
        expired == sub.grace_period_ends_at # Null
                   /\ t > sub.grace_period_ends_at
    IN  CASE sub.status = "active" /\ expiring -> "expiring"
          [] sub.status = "expiring" /\ paused /\ expired -> "expired"
          [] sub.status = "expiring" /\ paused /\ ~expired -> "paused"
          [] sub.status = "paused" /\ expired -> "expired"
          [] OTHER -> sub.status

\* a sweep whose guards take the instant of each deadline too
NewStatusInclusive(sub, t) ==
    IF t >= sub.ends_at - ExpiringDays /\ t < sub.ends_at /\ sub.status = "active"
    THEN "expiring"
    ELSE IF t >= sub.ends_at /\ sub.status = "expiring"
    THEN "paused"
    ELSE IF sub.grace_period_ends_at # Null /\ t >= sub.grace_period_ends_at
            /\ sub.status = "paused"
    THEN "expired"
    ELSE sub.status

\* a sweep whose first guard does not test now.Before(EndsAt)
NewStatusNoUpperBound(sub, t) ==
    IF t > sub.ends_at - ExpiringDays /\ sub.status = "active"
    THEN "expiring"
    ELSE IF t > sub.ends_at /\ sub.status = "expiring"
    THEN "paused"
    ELSE IF sub.grace_period_ends_at # Null /\ t > sub.grace_period_ends_at
            /\ sub.status = "paused"
    THEN "expired"
    ELSE sub.status

\* the status updateSubscriptionStatuses computes for a row it read, at its
\* now t (the row's own status when it needs no change)
NewStatus(sub, t) ==
    IF t > sub.ends_at - ExpiringDays /\ t < sub.ends_at /\ sub.status = "active"
    THEN "expiring"
    ELSE IF t > sub.ends_at /\ sub.status = "expiring"
    THEN "paused"
    ELSE IF sub.grace_period_ends_at # Null /\ t > sub.grace_period_ends_at
            /\ sub.status = "paused"
    THEN "expired"
    ELSE sub.status

\* updateSubscriptionStatuses on the rows snap that
\* GetSubscriptionsNeedingUpdate read: every row that needs a change gets its
\* status updated in the ledger cur
updateSubscriptionStatuses(cur, snap, t) ==
    [i \in 1..Len(cur) |->
        IF i <= Len(snap) /\ snap[i].status \in LiveStatuses
           /\ NewStatus(snap[i], t) # snap[i].status
        THEN UpdateSubscriptionStatus(cur[i], NewStatus(snap[i], t))
        ELSE cur[i]]

\* a cleanup query that takes the devices whose grace period ended at the
\* threshold too
GetExpiredDevicesToCleanupAtThreshold(subs, devs, before) ==
    {i \in ActiveRows(devs) :
        /\ devs[i].subscription_id \in 1..Len(subs)
        /\ subs[devs[i].subscription_id].status = "expired"
        /\ subs[devs[i].subscription_id].grace_period_ends_at # Null
        /\ subs[devs[i].subscription_id].grace_period_ends_at <= before}

\* Repository.GetExpiredDevicesToCleanup(before)
GetExpiredDevicesToCleanup(subs, devs, before) ==
    {i \in ActiveRows(devs) :
        /\ devs[i].subscription_id \in 1..Len(subs)
        /\ subs[devs[i].subscription_id].status = "expired"
        /\ subs[devs[i].subscription_id].grace_period_ends_at # Null
        /\ subs[devs[i].subscription_id].grace_period_ends_at < before}

\* a cleanup that also clears the address of the rows it revokes
revokeExpiredDevicesAndAddresses(subs, devs, t, revokedAt) ==
    [i \in 1..Len(devs) |->
        IF i \in GetExpiredDevicesToCleanup(subs, devs, t - CleanupDays)
        THEN [devs[i] EXCEPT !.revoked_at = revokedAt, !.assigned_ip = NoText]
        ELSE devs[i]]

\* a cleanup that deletes the rows of the devices it selects
deleteExpiredDevices(subs, devs, t, revokedAt) ==
    LET keep == {i \in 1..Len(devs) :
                    i \notin GetExpiredDevicesToCleanup(subs, devs,
                                                        t - CleanupDays)}
        F[n \in 0..Len(devs)] ==
            IF n = 0 THEN <<>>
            ELSE IF n \in keep THEN Append(F[n - 1], devs[n]) ELSE F[n - 1]
    IN  F[Len(devs)]

\* revokeExpiredDevices at the run's now t: the ledger rows alone are revoked
revokeExpiredDevices(subs, devs, t, revokedAt) ==
    [i \in 1..Len(devs) |->
        IF i \in GetExpiredDevicesToCleanup(subs, devs, t - CleanupDays)
        THEN [devs[i] EXCEPT !.revoked_at = revokedAt]
        ELSE devs[i]]

\* a run that returns when a pass fails
ReturnsOnError(err) == ~err

\* run: the error of a pass is logged and the run goes on to the next pass
ContinuesAfter(err) == TRUE

\* run: now := time.Now(), then updateSubscriptionStatuses reads the
\* subscriptions in a live status; when the read fails the pass returns its
\* error before it writes anything
RunStarted(s, sweepFails) ==
    [s EXCEPT !.pc = "update", !.now = now,
              !.snap = IF sweepFails THEN <<>> ELSE subscriptions,
              !.passes = <<PassOrder[1]>>,
              !.failed = IF sweepFails THEN {PassOrder[1]} ELSE {}]

\* a run begins
SchedRun ==
    /\ sched.pc = "idle"
    /\ sched' = RunStarted(sched, FALSE)
    /\ UNCHANGED <<now, payments, subscriptions, devices, wgPeers, wgAddress,
                   pc, loc, dbShared, dbReserved, sshSent, users, wgConf>>

\* the status updates of updateSubscriptionStatuses
SchedUpdate ==
    /\ sched.pc = "update"
    /\ subscriptions' =
           updateSubscriptionStatuses(subscriptions, sched.snap, sched.now)
    /\ sched' = [sched EXCEPT
                     !.pc = IF ContinuesAfter(PassOrder[1] \in sched.failed)
                            THEN "notify" ELSE "idle",
                     !.snap = <<>>]
    /\ UNCHANGED <<now, payments, devices, wgPeers, wgAddress, pc, loc,
                   dbShared, dbReserved, sshSent, users, wgConf>>

\* sendNotifications: it reads the subscriptions in a live status (the read
\* may fail) and sends the users their messages; it writes nothing
SchedNotify(notifyFails) ==
    /\ sched.pc = "notify"
    /\ sched' = [sched EXCEPT
                     !.pc = IF ContinuesAfter(notifyFails)
                            THEN "cleanup" ELSE "idle",
                     !.passes = Append(@, PassOrder[2]),
                     !.failed = IF notifyFails
                                THEN @ \cup {PassOrder[2]} ELSE @]
    /\ UNCHANGED <<now, payments, subscriptions, devices, wgPeers, wgAddress,
                   pc, loc, dbShared, dbReserved, sshSent, users, wgConf>>

\* revokeExpiredDevices (its query may fail, and then nothing is revoked);
\* the run ends
SchedCleanup(cleanupFails) ==
    /\ sched.pc = "cleanup"
    /\ devices' =
           IF cleanupFails THEN devices
           ELSE revokeExpiredDevices(subscriptions, devices, sched.now, now)
    /\ sched' = [sched EXCEPT
                     !.pc = "idle", !.now = 0,
                     !.passes = Append(@, PassOrder[3]),
                     !.failed = IF cleanupFails
                                THEN @ \cup {PassOrder[3]} ELSE @]
    /\ UNCHANGED <<now, payments, subscriptions, wgPeers, wgAddress, pc, loc,
                   dbShared, dbReserved, sshSent, users, wgConf>>

\* instants at which a guard of the program changes its value: the clock is
\* observed at these
Deadlines ==
    UNION {{subscriptions[i].ends_at - ExpiringDays,
            subscriptions[i].ends_at - ExpiringDays + 1,
            subscriptions[i].ends_at,
            subscriptions[i].ends_at + 1,
            subscriptions[i].grace_period_ends_at,
            subscriptions[i].grace_period_ends_at + 1,
            subscriptions[i].grace_period_ends_at + CleanupDays,
            subscriptions[i].grace_period_ends_at + CleanupDays + 1}
           : i \in 1..Len(subscriptions)}

\* time passes.  The clock counts days: a request is answered and a run of
\* the scheduler ends (its context has a budget of 5 minutes) within the day
\* it started in.
Tick ==
    /\ sched.pc = "idle"
    /\ \A w \in AllWorkers : ~Busy(w)
    /\ \E t \in Deadlines : t > now /\ t <= MaxTime /\ now' = t
    /\ UNCHANGED <<payments, subscriptions, devices, wgPeers, wgAddress, pc,
                   loc, dbShared, dbReserved, sched, sshSent, users, wgConf>>

----------------------------------------------------------------------------
(* The whole bot *)

Init ==
    /\ now = 0
    /\ payments = <<>>
    /\ subscriptions = <<>>
    /\ devices = <<>>
    /\ wgPeers = {}
    /\ wgAddress = <<10, 0, 0, 1>>
    /\ pc = [w \in AllWorkers |-> "idle"]
    /\ loc = [w \in AllWorkers |-> LocInit]
    /\ dbShared = {}
    /\ dbReserved = 0
    /\ sched = SchedInit
    /\ sshSent = {}
    /\ users = {}
    /\ wgConf = {}

\* a step of a payment: its creation by the user, or its proof
PaymentStep ==
    \/ \E u \in Users, d \in Durations, c \in DeviceCounts :
           CreatePaymentAttempt(u, d, c)
    \/ \E u \in Users : handlePaymentProof(u)
    \/ \E u \in Users, id \in 1..Len(payments) : handlePhoto(u, id)

\* a step of the request goroutine w
RequestStep(w) ==
    \/ \E u \in Users : NewKeysCheck(w, u)
    \/ NewKeysSub(w)
    \/ \E id \in 1..Len(payments) : ApproveStart(w, id, Admin, NoComment)
    \/ ApproveMark(w)
    \/ ApproveGetSub(w)
    \/ ExtendRead(w)
    \/ ExtendWrite(w)
    \/ CreateSub(w)
    \/ ApproveDevice(w)
    \/ TxSelect(w, FALSE, FALSE)
    \/ PreCheck(w)
    \/ TxInsert(w)
    \/ TxCommit(w)
    \/ PostCommit(w, FALSE, "updated")

\* a step of the scheduler's run
SchedStep ==
    \/ SchedRun
    \/ SchedUpdate
    \/ SchedNotify(FALSE)
    \/ SchedCleanup(FALSE)

\* one request is handled at a time, while the scheduler runs and time passes
Next ==
    \/ PaymentStep
    \/ RequestStep(1)
    \/ SchedStep
    \/ Tick

Spec == Init /\ [][Next]_vars

----------------------------------------------------------------------------
(* Concurrent requests: the handlers on several goroutines at one instant *)

NextRequests ==
    \/ PaymentStep
    \/ \E w \in Workers : RequestStep(w)

SpecRequests == Init /\ [][NextRequests]_vars

\* a step of the review of a payment on goroutine w: an approve callback of
\* any user with any comment, or a reject callback of any user
ReviewStep(w) ==
    \/ \E id \in 1..Len(payments), caller \in Callers, verifiedComment \in Comments :
           ApproveStart(w, id, caller, verifiedComment)
    \/ \E id \in 1..Len(payments), caller \in Callers : RejectStart(w, id, caller)
    \/ RejectMark(w)

\* most payment rows in the specification SpecReview
MaxReviewPayments == 2

NextReview ==
    \/ PaymentStep /\ Len(payments') <= MaxReviewPayments
    \/ \E w \in Workers : RequestStep(w)
    \/ \E w \in Workers : ReviewStep(w)

SpecReview == Init /\ [][NextReview]_vars

----------------------------------------------------------------------------
(* The scheduler's loop: Start, Stop, the ticker and the run goroutines,   *)
(* over a ledger that receives no approval                                 *)

\* days at which the bot is started over the ledger it finds
StartDays == {0, 28, 31, 34}

\* a subscription made at day 0, as an earlier life of the bot may have left
\* it: Active at any day, Expiring after the window opened, Paused after
\* ends_at
SchedStartStates ==
    {st \in [status : LiveStatuses, day : StartDays] :
        LET sub == NewSubscriptionRow(
                       [user_id |-> 1, duration_days |-> MaxDuration,
                        device_count |-> 1], 0)
        IN  /\ st.status = "expiring" => st.day > sub.ends_at - ExpiringDays
            /\ st.status = "paused" => st.day > sub.ends_at}

InitSched ==
    \E st \in SchedStartStates :
        /\ now = st.day
        /\ payments = <<>>
        /\ subscriptions =
               <<[NewSubscriptionRow(
                      [user_id |-> 1, duration_days |-> MaxDuration,
                       device_count |-> 1], 0)
                  EXCEPT !.status = st.status]>>
        /\ devices =
               <<[user_id |-> 1, subscription_id |-> 1, peer_public_key |-> 1,
                  assigned_ip |-> IPString(<<10, 0, 0, 2>>),
                  revoked_at |-> Null]>>
        /\ wgPeers = {[key |-> 1, ip |-> <<10, 0, 0, 2>>]}
        /\ wgAddress = <<10, 0, 0, 1>>
        /\ pc = [w \in AllWorkers |-> "idle"]
        /\ loc = [w \in AllWorkers |-> LocInit]
        /\ dbShared = {}
        /\ dbReserved = 0
        /\ sched = SchedInit
        /\ sshSent = {}
        /\ users = GetOrCreateUser({}, 1)
        /\ wgConf = {[key |-> 1, ip |-> <<10, 0, 0, 2>>]}

\* what the scheduler leaves alone
LedgerUnchanged ==
    UNCHANGED <<payments, subscriptions, devices, wgPeers, wgAddress, pc, loc,
                dbShared, dbReserved, sshSent, users, wgConf>>

\* Start: s.running = true, go s.run(), the ticker is made and the loop
\* waits in its select
Start ==
    /\ sched.loop = "off"
    /\ sched' = [sched EXCEPT !.loop = "select", !.running = TRUE,
                              !.spawned = @ + 1]
    /\ UNCHANGED now
    /\ LedgerUnchanged

\* Stop: s.running = false, close(s.stop)
Stop ==
    /\ sched.loop # "off"
    /\ ~sched.stopped
    /\ sched' = [sched EXCEPT !.running = FALSE, !.stopped = TRUE]
    /\ UNCHANGED now
    /\ LedgerUnchanged

\* the caller cancels the context it passed to Start
Cancel ==
    /\ sched.loop # "off"
    /\ ~sched.cancelled
    /\ sched' = [sched EXCEPT !.cancelled = TRUE]
    /\ UNCHANGED now
    /\ LedgerUnchanged

\* 24 hours pass and the ticker puts a tick in ticker.C (the loop's deferred
\* ticker.Stop ends the ticks).  The run of the day before has ended: its
\* context has a budget of 5 minutes.  The clock stays at MaxTime, after
\* which no guard of the sweep changes its value.
TickerFires ==
    /\ sched.loop = "select"
    /\ ~sched.tick
    /\ sched.spawned = 0
    /\ sched.pc = "idle"
    /\ now' = IF now < MaxTime THEN now + 1 ELSE now
    /\ sched' = [sched EXCEPT !.tick = TRUE]
    /\ LedgerUnchanged

\* select, case <-ticker.C: go s.run()
LoopTick ==
    /\ sched.loop = "select"
    /\ sched.tick
    /\ sched' = [sched EXCEPT !.tick = FALSE, !.spawned = @ + 1]
    /\ UNCHANGED now
    /\ LedgerUnchanged

\* select, case <-s.stop: return
LoopStop ==
    /\ sched.loop = "select"
    /\ sched.stopped
    /\ sched' = [sched EXCEPT !.loop = "exited"]
    /\ UNCHANGED now
    /\ LedgerUnchanged

\* select, case <-ctx.Done(): return
LoopDone ==
    /\ sched.loop = "select"
    /\ sched.cancelled
    /\ sched' = [sched EXCEPT !.loop = "exited"]
    /\ UNCHANGED now
    /\ LedgerUnchanged

\* the values a run goroutine may read from s.running: the field is written
\* by Stop and read by run with no synchronisation between the two, so that
\* after Stop the read may return the value Start wrote
RunningRead(s) == IF s.stopped THEN {TRUE, FALSE} ELSE {s.running}

\* a run goroutine starts: if !s.running { return }
RunReturns ==
    /\ sched.spawned > 0
    /\ FALSE \in RunningRead(sched)
    /\ sched' = [sched EXCEPT !.spawned = @ - 1]
    /\ UNCHANGED now
    /\ LedgerUnchanged

\* a run goroutine starts and goes on: the run begins
RunBegin(sweepFails) ==
    /\ sched.spawned > 0
    /\ TRUE \in RunningRead(sched)
    /\ sched.pc = "idle"
    /\ sched' = [RunStarted(sched, sweepFails) EXCEPT !.spawned = @ - 1]
    /\ UNCHANGED now
    /\ LedgerUnchanged

NextSched ==
    \/ Start
    \/ Stop
    \/ Cancel
    \/ TickerFires
    \/ LoopTick
    \/ LoopStop
    \/ LoopDone
    \/ RunReturns
    \/ \E sweepFails \in BOOLEAN : RunBegin(sweepFails)
    \/ SchedUpdate
    \/ \E notifyFails \in BOOLEAN : SchedNotify(notifyFails)
    \/ \E cleanupFails \in BOOLEAN : SchedCleanup(cleanupFails)

SpecSched == InitSched /\ [][NextSched]_vars

\* the scheduler that is started, is never stopped, and whose passes succeed
NextSchedLive ==
    \/ Start
    \/ TickerFires
    \/ LoopTick
    \/ RunBegin(FALSE)
    \/ SchedUpdate
    \/ SchedNotify(FALSE)
    \/ SchedCleanup(FALSE)

\* the Go runtime runs every goroutine that can run and the ticker fires
\* every 24 hours: a step that stays possible is taken
SpecSchedLive ==
    /\ InitSched
    /\ [][NextSchedLive]_vars
    /\ WF_vars(Start)
    /\ WF_vars(TickerFires)
    /\ WF_vars(LoopTick)
    /\ WF_vars(RunBegin(FALSE))
    /\ WF_vars(SchedUpdate)
    /\ WF_vars(SchedNotify(FALSE))
    /\ WF_vars(SchedCleanup(FALSE))

----------------------------------------------------------------------------
(* Properties of the device limit, the subscriptions, the gate and the sweep *)

\* ids of the subscriptions of user u
SubscriptionsOf(u) ==
    {i \in 1..Len(subscriptions) : subscriptions[i].user_id = u}

\* C3: the non-revoked devices of a subscription never outnumber its device
\* limit, whatever path created them.
C3_DeviceLimitRespected ==
    \A i \in 1..Len(subscriptions) :
        CountActiveDevicesBySubscription(devices, i) <= subscriptions[i].device_limit

\* C4: each user has at most one subscription in a live status.
C4_OneLiveSubscriptionPerUser ==
    \A u \in Users :
        Cardinality({i \in SubscriptionsOf(u) :
                        subscriptions[i].status \in LiveStatuses}) <= 1

\* C6 as written: the gate allows only a user with a subscription that is
\* Active or Expiring, whose endsAt the current time is before, and whose
\* non-revoked devices are fewer than its device limit.
C6_AllowOnlyBeforeEndsAt ==
    \A u \in Users :
        CanProvisionDevice(subscriptions, devices, u, now) = Allow
        => \E i \in SubscriptionsOf(u) :
               /\ subscriptions[i].status \in {"active", "expiring"}
               /\ now < subscriptions[i].ends_at
               /\ CountActiveDevicesBySubscription(devices, i)
                      < subscriptions[i].device_limit

\* C6 as amended: the gate allows only a user with a subscription that is
\* Active or Expiring, whose endsAt the current time is not after, and whose
\* non-revoked devices are fewer than its device limit.
C6_AllowOnlyIfEntitled ==
    \A u \in Users :
        CanProvisionDevice(subscriptions, devices, u, now) = Allow
        => \E i \in SubscriptionsOf(u) :
               /\ subscriptions[i].status \in {"active", "expiring"}
               /\ now <= subscriptions[i].ends_at
               /\ CountActiveDevicesBySubscription(devices, i)
                      < subscriptions[i].device_limit

\* the gate has allowed a request for a user whose subscription is Expiring
\* and holds a device already
C6_AllowedWhileExpiring ==
    \E w \in Workers :
        /\ pc[w] = "newkeys_sub"
        /\ \E i \in SubscriptionsOf(loc[w].user) :
               /\ subscriptions[i].status = "expiring"
               /\ CountActiveDevicesBySubscription(devices, i) = 1

\* C7 (its last sentence): a user whose only subscriptions are Expired is
\* denied with the reason 'expired'.
C7_ExpiredUserDeniedAsExpired ==
    \A u \in Users :
        (/\ SubscriptionsOf(u) # {}
         /\ \A i \in SubscriptionsOf(u) : subscriptions[i].status = "expired")
        => CanProvisionDevice(subscriptions, devices, u, now) = "expired"


\* time values a sweep is tried at: the current time and, for every row, a
\* time in each of the orders a time can stand in to the row's endsAt and
\* gracePeriodEndsAt
SweepInstants == Deadlines \cup {now}

\* one whole sweep of the ledger subs at time t
Sweep(subs, t) == updateSubscriptionStatuses(subs, subs, t)

SweepWrites == sched.pc = "update" /\ sched'.pc = "notify"

C10_ExtensionFromCurrentEndsAt ==
    [][\A w \in Workers :
          (pc[w] = "extend_write" /\ pc'[w] = "approve_device"
           /\ subscriptions[loc[w].sub].status \in LiveStatuses)
          => LET id == loc[w].sub
                 days == payments[loc[w].pay].duration_days
             IN  /\ subscriptions'[id].status = "active"
                 /\ subscriptions'[id].ends_at = subscriptions[id].ends_at + days
                 /\ subscriptions'[id].grace_period_ends_at
                        = subscriptions'[id].ends_at + GraceDays]_vars

\* C11: once a subscription is Expired no step changes its row, and an
\* approval that finds every subscription of its user Expired adds one Active
\* row.
C11_ExpiredIsTerminal ==
    [][/\ \A i \in 1..Len(subscriptions) :
              subscriptions[i].status = "expired"
              => /\ i <= Len(subscriptions')
                 /\ subscriptions'[i] = subscriptions[i]
       /\ \A w \in Workers :
              (/\ pc[w] \in {"approve_getsub", "extend_read", "extend_write", "create_sub"}
               /\ pc'[w] = "approve_device"
               /\ \A i \in SubscriptionsOf(payments[loc[w].pay].user_id) :
                      subscriptions[i].status = "expired")
              => /\ Len(subscriptions') = Len(subscriptions) + 1
                 /\ subscriptions'[Len(subscriptions')].status = "active"
                 /\ subscriptions'[Len(subscriptions')].user_id
                        = payments[loc[w].pay].user_id]_vars

\* the scheduler's run ends with its cleanup pass
CleanupRuns == sched.pc = "cleanup" /\ sched'.pc = "idle"

RollsBack(w) ==
    /\ pc[w] \in {"insert", "commit"}
    /\ pc'[w] \in {"failed to insert device", "failed to commit transaction"}

\* C15: when a local create has computed an address and its transaction rolls
\* back at the insert or at the commit, no non-revoked device row holds that
\* address and the next allocation returns that same address.
C15_RolledBackAddressIsReused ==
    [][\A w \in AllocWorkers :
          RollsBack(w)
          => /\ IPString(loc[w].ip) \notin AssignedAddresses(devices')
             /\ getNextIPNetAtomic(devices', FALSE, FALSE) = loc[w].ip]_vars

\* the numerically greatest address of a set of addresses
GreatestIP(ips) == CHOOSE a \in ips : \A b \in ips : ~BytesLess(a, b)

\* the addresses of the non-revoked device rows
ActiveAddresses(rows) == {ParseIP(rows[i].assigned_ip) : i \in ActiveRows(rows)}

\* the call of w gets an address from an allocator whose query succeeded
AllocatesFromLedger(w) ==
    /\ pc[w] = "begin"
    /\ pc'[w] = "precheck"
    /\ w \in dbShared'

\* C23: the allocator returns one plus the numerically greatest address of
\* the non-revoked devices; with no non-revoked device, one plus the greatest
\* address of the peers on the live interface; and with no peer either, one
\* plus the address of the interface
C23_AllocatorFollowsGreatestAddress ==
    [][\A w \in AllocWorkers :
           AllocatesFromLedger(w)
           => loc'[w].ip =
                  IF ActiveAddresses(devices) # {}
                  THEN nextIP(GreatestIP(ActiveAddresses(devices)), 1)
                  ELSE IF wgPeers # {}
                  THEN nextIP(GreatestIP({p.ip : p \in wgPeers}), 1)
                  ELSE nextIP(wgAddress, 1)]_vars

\* C24: when the allocator returns an error the create call returns it at
\* once: no device row is inserted, the live interface is not touched and the
\* transaction is over with its locks released; and no call goes on without
\* an address
C24_AllocationErrorAbortsCreate ==
    /\ [][\A w \in AllocWorkers :
              (pc[w] = "begin" /\ pc'[w] # "precheck" /\ pc'[w] # pc[w])
              => /\ pc'[w] = "failed to get next IP"
                 /\ devices' = devices
                 /\ wgPeers' = wgPeers
                 /\ w \notin dbShared'
                 /\ dbReserved' # w]_vars
    /\ [](\A w \in AllocWorkers :
              pc[w] \in InCreate \ {"begin"} => loc[w].ip # NoIP)

\* a create call has returned the allocator's error while another call's
\* device is in the ledger
C24_AllocationErrorReturned ==
    \E w \in AllocWorkers :
        /\ pc[w] = "failed to get next IP"
        /\ Len(devices) > 0

\* C25: the live interface is changed for a peer only after the transaction
\* that inserts the peer's device row has committed: every peer on the
\* interface has a committed device row with its public key and its address,
\* and a step that adds a peer finds that row in the ledger already
C25_LivePeersHaveCommittedRows ==
    /\ [](\A p \in wgPeers :
              \E i \in 1..Len(devices) :
                  /\ devices[i].peer_public_key = p.key
                  /\ devices[i].assigned_ip = IPString(p.ip))
    /\ [][\A p \in wgPeers' \ wgPeers :
              \E i \in 1..Len(devices) :
                  /\ devices[i].peer_public_key = p.key
                  /\ devices[i].assigned_ip = IPString(p.ip)]_vars

\* a create call has put its peer on the interface while another call, whose
\* row is not committed, is in its transaction
C25_PeerAddedWhileOtherUncommitted ==
    /\ wgPeers # {}
    /\ \E w \in AllocWorkers : pc[w] \in {"insert", "commit"}
    /\ \E w \in AllocWorkers : pc[w] = "ok"

\* a RevokeDevice of the local provisioner takes effect: no create call moves
\* and the interface or its configuration file changes
LocalRevokeActs ==
    /\ pc' = pc
    /\ wgPeers' # wgPeers \/ wgConf' # wgConf

\* C26: RevokeDevice of the local provisioner removes the one peer from the
\* live interface and then saves the configuration, so that the file it
\* writes is the interface without the peer (the file stays as it was when
\* the save fails); it changes no device row
C26_LocalRevokeLeavesLedger ==
    [][LocalRevokeActs
       => /\ devices' = devices
          /\ wgPeers' \subseteq wgPeers
          /\ \A p, q \in wgPeers \ wgPeers' : p.key = q.key
          /\ \A p \in wgPeers' : \A q \in wgPeers \ wgPeers' : p.key # q.key
          /\ wgConf' \in {wgConf, wgPeers'}]_vars

\* every create call made has ended well and configured its peer, the addresses
\* are distinct, and the peer of a device that is not revoked in the ledger
\* is gone from the interface and from the saved configuration
C26_PeerRevokedRowNot ==
    /\ \A w \in AllocWorkers : pc[w] \in {"idle", "ok"} /\ ~loc[w].warned
    /\ Len(devices) = Cardinality({w \in AllocWorkers : pc[w] = "ok"})
    /\ \A i, j \in 1..Len(devices) :
           i # j => devices[i].assigned_ip # devices[j].assigned_ip
    /\ wgConf = wgPeers
    /\ \E i \in ActiveRows(devices) :
           \A p \in wgPeers : p.key # devices[i].peer_public_key

----------------------------------------------------------------------------
(* Properties of the remote backend *)

\* keys of the non-revoked device rows
ActiveKeys(rows) == {rows[i].peer_public_key : i \in ActiveRows(rows)}

SingleHostTexts ==
    {IPString(a) : a \in RemoteIPs} \cup {IPString(a) \o Slash32 : a \in RemoteIPs}

\* a response that holds all four fields and a single-host address
WellFormedResponse(resp) ==
    /\ resp.assigned_ip \in SingleHostTexts
    /\ resp.server_public_key # ""
    /\ resp.endpoint # ""
    /\ resp.dns # ""

\* C13: a remote create whose response lacks assigned_ip, server_public_key,
\* endpoint or dns, or whose assigned_ip is no single-host address, returns an
\* error, and no step of the call up to there changes the device rows.
C13_MalformedResponsePersistsNothing ==
    [][\A w \in SshWorkers :
          /\ (pc[w] \in {"ssh_check", "ssh_exec", "ssh_validate"} /\ pc'[w] # pc[w])
             => devices' = devices
          /\ (pc[w] = "ssh_validate" /\ pc'[w] # pc[w]
              /\ ~WellFormedResponse(loc[w].resp))
             => pc'[w] \in {"invalid response from DE server",
                            "failed to parse assigned_ip from DE server"}]_vars

\* one call has been refused for a missing field and another for an
\* assigned_ip that is no address
C13_BothRefusalsSeen ==
    /\ \E w \in SshWorkers : pc[w] = "invalid response from DE server"
    /\ \E w \in SshWorkers : pc[w] = "failed to parse assigned_ip from DE server"
    /\ devices = <<>>


----------------------------------------------------------------------------
(* Properties of the rows of the ledger *)

\* a device row but for its revocation time
Unrevoked(row) == [row EXCEPT !.revoked_at = Null]

\* C19: no step removes a row of devices, subscriptions or users; a step
\* changes nothing of an existing device row but its revocation time, which
\* it sets, and a revoked device stays revoked
C19_RowsStayAndDevicesAreOnlyRevoked ==
    [][/\ Len(devices') >= Len(devices)
       /\ Len(subscriptions') >= Len(subscriptions)
       /\ users \subseteq users'
       /\ \A i \in 1..Len(subscriptions) :
              subscriptions'[i].user_id = subscriptions[i].user_id
       /\ \A i \in 1..Len(devices) :
              /\ Unrevoked(devices'[i]) = Unrevoked(devices[i])
              /\ devices'[i].revoked_at # devices[i].revoked_at
                 => devices'[i].revoked_at # Null
              /\ devices[i].revoked_at # Null
                 => devices'[i].revoked_at # Null]_vars

\* a device was revoked, its row is still there, and a device made later is
\* not revoked
C19_RevokedRowBesideLaterDevice ==
    /\ users # {}
    /\ \E i, j \in 1..Len(devices) :
           /\ i < j
           /\ devices[i].revoked_at # Null
           /\ devices[j].revoked_at = Null
           /\ devices[j].subscription_id # devices[i].subscription_id

\* the notification pass of a run is made
NotifyRuns == sched.pc = "notify" /\ sched'.pc # "notify"

\* C27: the cleanup pass changes nothing but the revocation time of device
\* rows: the peers of the live interface, its saved configuration and the
\* commands sent to the remote host are as before; and the notification pass
\* changes nothing in the ledger
C27_CleanupAndNotifyTouchOnlyRevocation ==
    [][/\ CleanupRuns
          => /\ wgPeers' = wgPeers
             /\ wgConf' = wgConf
             /\ sshSent' = sshSent
             /\ UNCHANGED <<payments, subscriptions, users>>
             /\ Len(devices') = Len(devices)
             /\ \A i \in 1..Len(devices) :
                    Unrevoked(devices'[i]) = Unrevoked(devices[i])
       /\ NotifyRuns
          => UNCHANGED <<payments, subscriptions, devices, users, wgPeers,
                         wgConf, sshSent>>]_vars

\* the cleanup has revoked a device in the ledger and its peer is still on
\* the live interface
C27_RevokedInLedgerStillOnInterface ==
    /\ sched.pc = "idle"
    /\ \E i \in 1..Len(devices) :
           /\ devices[i].revoked_at # Null
           /\ \E p \in wgPeers : p.key = devices[i].peer_public_key

----------------------------------------------------------------------------
(* Properties of the scheduler's loop *)

\* a run passes its check of s.running and starts its passes
RunBegins == sched.pc = "idle" /\ sched'.pc = "update"

\* C17: Start creates one run at once and the loop one more run for each tick
\* it receives; once Stop was called or the context passed to Start was
\* cancelled no run begins, and a loop that has exited stays so and creates
\* no run
C17_NoRunAfterStopOrCancel ==
    [][/\ (sched.loop = "off" /\ sched'.loop = "select")
          => sched'.spawned = sched.spawned + 1
       /\ (sched.tick /\ ~sched'.tick)
          => sched'.spawned = sched.spawned + 1
       /\ (sched.stopped \/ sched.cancelled) => ~RunBegins
       /\ sched.loop = "exited"
          => /\ sched'.loop = "exited"
             /\ sched'.spawned <= sched.spawned]_vars

\* C18: a run attempts updateSubscriptionStatuses, sendNotifications and
\* revokeExpiredDevices in this order, and it ends only after it attempted
\* all three, whichever of them returned an error
C18_RunAttemptsThreePassesInOrder ==
    [][/\ (sched.pc # "idle" /\ sched'.pc = "idle")
          => sched'.passes = PassOrder
       /\ sched'.pc # "idle"
          => /\ Len(sched'.passes) \in 1..Len(PassOrder)
             /\ sched'.passes = SubSeq(PassOrder, 1, Len(sched'.passes))
       /\ (sched.pc # "idle" /\ sched'.pc # "idle")
          => Len(sched'.passes) >= Len(sched.passes)]_vars

C18_RunEndedThoughPassesFailed ==
    /\ sched.pc = "idle"
    /\ sched.passes = PassOrder
    /\ sched.failed = {PassOrder[1], PassOrder[2]}

\* C20: under a scheduler that sweeps at every tick, every subscription that
\* receives no approval is Expired in the end, with every device attached to
\* it revoked, whatever its status and however late the first sweep
C20_EverySubscriptionExpiresAndIsCleaned ==
    <>(\A i \in 1..Len(subscriptions) :
          /\ subscriptions[i].status = "expired"
          /\ \A d \in 1..Len(devices) :
                 devices[d].subscription_id = i
                 => devices[d].revoked_at # Null)


----------------------------------------------------------------------------
(* Properties of one sweep *)

\* the status the transition table gives a subscription at t, with the
\* deadlines themselves inside (atDeadline) or outside the intervals
TableStatus(sub, t, atDeadline) ==
    LET reached(d) == IF atDeadline THEN t >= d ELSE t > d
    IN  CASE sub.status = "active" ->
                 IF reached(sub.ends_at - ExpiringDays) /\ t < sub.ends_at
                 THEN "expiring" ELSE "active"
          [] sub.status = "expiring" ->
                 IF reached(sub.ends_at) THEN "paused" ELSE "expiring"
          [] sub.status = "paused" ->
                 IF reached(sub.grace_period_ends_at)
                 THEN "expired" ELSE "paused"
          [] OTHER -> sub.status

\* the sweep of a run, whose read succeeded, writes its status updates
SweepSucceeds == SweepWrites /\ PassOrder[1] \notin sched.failed

\* what a sweep does to the rows it read, by the table: a row whose status
\* the table changes gets that status, and every other row is left as it is
SweepWritesByTable(atDeadline) ==
    \A i \in 1..Len(sched.snap) :
        LET to == TableStatus(sched.snap[i], sched.now, atDeadline)
        IN  IF to # sched.snap[i].status
            THEN subscriptions'[i].status = to
            ELSE subscriptions'[i] = subscriptions[i]

Rank(status) ==
    CASE status = "active" -> 1
      [] status = "expiring" -> 2
      [] status = "paused" -> 3
      [] status = "expired" -> 4

\* C22: a sweep moves no subscription backwards in the order Active,
\* Expiring, Paused, Expired, and to a subscription whose status it changes
\* it applies one transition: the new status is the one that follows the
\* status the sweep read
C22_SweepAppliesOneForwardTransition ==
    [][SweepWrites
       => /\ Len(subscriptions') = Len(subscriptions)
          /\ \A i \in 1..Len(subscriptions) :
                 /\ Rank(subscriptions'[i].status)
                        >= Rank(subscriptions[i].status)
                 /\ subscriptions'[i].status # subscriptions[i].status
                    => /\ i <= Len(sched.snap)
                       /\ Rank(subscriptions'[i].status)
                              = Rank(sched.snap[i].status) + 1]_vars

\* a sweep found a subscription Expiring after its grace period had ended,
\* and left it Paused
C22_PausedThoughGraceEnded ==
    /\ sched.pc = "cleanup"
    /\ \E i \in 1..Len(subscriptions) :
           /\ subscriptions[i].status = "paused"
           /\ sched.now > subscriptions[i].grace_period_ends_at

\* the control characters among the characters of the device names: line
\* feed, carriage return, the zero character and the tabulator
ControlCharacters == {"\n", "\r", NUL, "\t"}

HasControlCharacter(arg) == \E i \in 1..Len(arg) : arg[i] \in ControlCharacters

\* C28: a remote create whose device name holds a control character is
\* rejected with an error where the command would be sent: the step sends no
\* command and persists no row, and no step of the call before it does.
C28_ControlCharacterRejectedBeforeSend ==
    [][\A w \in SshWorkers :
          (/\ pc[w] \in {"ssh_check", "ssh_exec"}
           /\ pc'[w] # pc[w]
           /\ HasControlCharacter(loc[w].name))
          => /\ sshSent' = sshSent
             /\ devices' = devices
             /\ pc'[w] \in {"ssh_exec", "already exists",
                            "failed to create peer on DE server",
                            "invalid argument contains control characters"}]_vars

\* C29: on the remote backend a device row is inserted only by a create call
\* whose command was sent and whose response passed the validation; the
\* address of the row is the address of the response without a trailing
\* /32; and the call has taken no address from the local allocator.
C29_RowHoldsValidatedRemoteAddress ==
    [][devices' # devices /\ Len(devices') > Len(devices)
       => \E w \in SshWorkers :
              /\ pc[w] = "ssh_insert" /\ pc'[w] # "ssh_insert"
              /\ [cmd |-> "create", key |-> loc[w].key] \in sshSent
              /\ WellFormedResponse(loc[w].resp)
              /\ Len(devices') = Len(devices) + 1
              /\ SubSeq(devices', 1, Len(devices)) = devices
              /\ devices'[Len(devices')].peer_public_key = loc[w].key
              /\ devices'[Len(devices')].assigned_ip
                     = TrimSuffix(loc[w].resp.assigned_ip, Slash32)
              /\ loc[w].ip = NoIP
              /\ w \notin dbShared]_vars

\* two remote create calls have ended well, and the second row holds an
\* address that is not above the first row's: the addresses are the remote
\* server's, not the next address of the ledger
C29_RemoteAddressesNotAscending ==
    /\ \A w \in SshWorkers : pc[w] = "ok"
    /\ Len(devices) = 2
    /\ devices[1].assigned_ip = IPString(<<10, 0, 0, 3>>)
    /\ devices[2].assigned_ip = IPString(<<10, 0, 0, 2>>)
    /\ Cardinality(sshSent) = 2

\* C30: a revoke call of the remote backend returns success only after the
\* revoke command was sent with the address the ledger holds for the key
\* and the answer held ok = true; a call goes on to the command only if the
\* ledger holds a row for the key, and the step that reads the ledger sends
\* nothing; every other end of the call is an error.
C30_RemoteRevokeNeedsOkAnswer ==
    [][\A w \in SshWorkers :
          /\ (pc'[w] = "revoked" /\ pc[w] # "revoked")
             => /\ pc[w] = "ssh_revoke_verify"
                /\ loc[w].resp.ok
                /\ \E i \in 1..Len(devices) :
                       /\ devices[i].peer_public_key = loc[w].key
                       /\ [cmd |-> "revoke", assigned_ip |-> devices[i].assigned_ip]
                              \in sshSent
          /\ (pc[w] = "idle" /\ loc'[w].op = "ssh_revoke")
             => /\ sshSent' = sshSent
                /\ pc'[w] = "ssh_revoke_exec"
                       => \E i \in 1..Len(devices) :
                              /\ devices[i].peer_public_key = loc'[w].key
                              /\ devices[i].assigned_ip = loc'[w].assigned_ip
                /\ pc'[w] # "ssh_revoke_exec"
                       => pc'[w] \in {"failed to get device from DB",
                                      "device not found in DB",
                                      "device has no assigned IP"}
          /\ (pc[w] \in InSshRevoke /\ pc'[w] # pc[w])
             => /\ devices' = devices
                /\ pc'[w] \in {"ssh_revoke_verify", "revoked",
                               "failed to revoke peer on DE server",
                               "invalid argument contains control characters",
                               "failed to parse JSON response from DE server",
                               "DE server returned ok=false"}
                /\ (pc[w] = "ssh_revoke_verify" /\ ~loc[w].resp.ok)
                       => pc'[w] = "DE server returned ok=false"]_vars

\* a device was created and revoked on the remote host with an ok answer,
\* and its row in the ledger is not revoked
C30_RevokedRemotelyWithOk ==
    /\ \E w \in SshWorkers : pc[w] = "revoked"
    /\ \E w \in SshWorkers : pc[w] = "ok"
    /\ Len(devices) = 1
    /\ devices[1].revoked_at = Null
    /\ [cmd |-> "revoke", assigned_ip |-> devices[1].assigned_ip] \in sshSent

----------------------------------------------------------------------------
(* Properties of approvals and of the subscription rows *)

\* C31 as stated: the row of a new subscription has no grace_period_ends_at,
\* and a row gets one only by the step that makes it Paused
C31_GraceUnsetUntilPaused ==
    [][/\ \A i \in (Len(subscriptions) + 1)..Len(subscriptions') :
              subscriptions'[i].grace_period_ends_at = Null
       /\ \A i \in 1..Len(subscriptions) :
              (/\ subscriptions[i].grace_period_ends_at = Null
               /\ subscriptions'[i].grace_period_ends_at # Null)
              => (/\ subscriptions[i].status # "paused"
                  /\ subscriptions'[i].status = "paused")]_vars

\* C31: grace_period_ends_at is set in every state, from the creation of
\* the subscription on, to ends_at plus three days; a step that changes the
\* status alone (the sweep's step into Paused among them) leaves it as it is.
C31_GraceSetFromCreation ==
    /\ [](\A i \in 1..Len(subscriptions) :
             /\ subscriptions[i].grace_period_ends_at # Null
             /\ subscriptions[i].grace_period_ends_at
                    = subscriptions[i].ends_at + GraceDays)
    /\ [][\A i \in 1..Len(subscriptions) :
             subscriptions'[i].ends_at = subscriptions[i].ends_at
             => subscriptions'[i].grace_period_ends_at
                    = subscriptions[i].grace_period_ends_at]_vars

\* the one approval made created a subscription, which is expiring and was
\* never paused, and its grace_period_ends_at is set
C31_NeverPausedWithGrace ==
    /\ Len(payments) = 1
    /\ payments[1].status = "approved"
    /\ Len(subscriptions) = 1
    /\ subscriptions[1].status = "expiring"
    /\ subscriptions[1].grace_period_ends_at = subscriptions[1].ends_at + GraceDays

\* C32: the status a sweep writes on a subscription is the one the
\* transition table gives for the row as it is when the sweep writes (its
\* status and its ends_at then): if an approval has extended the
\* subscription after the sweep read it, the sweep leaves it Active.
C32_SweepWritesOnlyWhatHoldsAtWrite ==
    [][SweepSucceeds
       => \A i \in 1..Len(subscriptions) :
              subscriptions'[i].status # subscriptions[i].status
              => subscriptions'[i].status
                     = TableStatus(subscriptions[i], sched.now, FALSE)]_vars

\* days paid for by the approved payments of user u
ApprovedDays(u) ==
    LET sum[n \in 0..Len(payments)] ==
            IF n = 0 THEN 0
            ELSE sum[n - 1]
                 + (IF payments[n].user_id = u /\ payments[n].status = "approved"
                    THEN payments[n].duration_days ELSE 0)
    IN  sum[Len(payments)]

\* C33: once the approvals of distinct payments have been applied to the one
\* subscription of a user (its duration_days holds the days of each approved
\* payment once), in any interleaving, each has moved its ends_at by the paid
\* duration: ends_at is the start time plus the accumulated duration_days.
C33_NoExtensionLost ==
    \A i \in 1..Len(subscriptions) :
        (/\ SubscriptionsOf(subscriptions[i].user_id) = {i}
         /\ subscriptions[i].duration_days = ApprovedDays(subscriptions[i].user_id))
        => subscriptions[i].ends_at
               = subscriptions[i].starts_at + subscriptions[i].duration_days

\* days the subscriptions of user u have accumulated
SubscribedDays(u) ==
    LET sum[n \in 0..Len(subscriptions)] ==
            IF n = 0 THEN 0
            ELSE sum[n - 1]
                 + (IF subscriptions[n].user_id = u
                    THEN subscriptions[n].duration_days ELSE 0)
    IN  sum[Len(subscriptions)]

\* C34: each payment creates or extends a subscription at most once, also
\* when two approvals of it run at once (the days a user's subscriptions
\* hold never exceed the days of the user's approved payments); and an
\* approval of a payment that is not in pending_review returns an error and
\* changes no payment, subscription or device.
C34_PaymentAppliedAtMostOnce ==
    /\ [](\A u \in Users : SubscribedDays(u) <= ApprovedDays(u))
    /\ [][\A w \in Workers :
             (pc'[w] = "not pending_review" /\ pc[w] # "not pending_review")
             => UNCHANGED <<payments, subscriptions, devices>>]_vars

\* C35: once a payment is approved or rejected, no step of any handler
\* changes its status
C35_ReviewedStatusIsFinal ==
    [][\A id \in 1..Len(payments) :
          payments[id].status \in {"approved", "rejected"}
          => payments'[id].status = payments[id].status]_vars

\* C36: on both backends a create call whose device row is in the ledger
\* ends without error: no step that follows the commit of the row (local
\* backend) or makes the insert of the row (remote backend) ends the call
\* with an error.
C36_NoErrorWithPersistedDevice ==
    [][\A w \in AllWorkers :
          /\ (pc[w] = "postcommit" /\ pc'[w] # "postcommit")
             => pc'[w] = "ok"
          /\ (pc[w] = "ssh_insert" /\ pc'[w] # "ssh_insert"
              /\ Len(devices') > Len(devices))
             => pc'[w] = "ok"]_vars

\* the call of AdminApprovePayment on goroutine w has passed the status
\* check: it goes on to its writes or it is refused for its comment
ApprovalChecked(w) ==
    /\ ~Busy(w)
    /\ <<pc'[w], loc'[w]>> # <<pc[w], loc[w]>>
    /\ loc'[w].op = "approve"
    /\ pc'[w] \in {"approve_mark", "payment comment mismatch"}

\* the call of AdminApprovePayment on goroutine w returns an error from its
\* checks
ApprovalRefused(w) ==
    /\ ~Busy(w)
    /\ <<pc'[w], loc'[w]>> # <<pc[w], loc[w]>>
    /\ loc'[w].op = "approve"
    /\ pc'[w] \in {"not an admin", "not pending_review",
                   "payment comment mismatch"}

\* C37: AdminApprovePayment goes on to its writes only with the comment the
\* payment holds; with another comment it returns the mismatch error (or
\* the error of an earlier check), and the refused call changes no payment,
\* no subscription and no device.
C37_CommentMismatchRefused ==
    [][\A w \in Workers :
          /\ ApprovalChecked(w)
             => LET stored == payments[loc'[w].pay].payment_comment
                IN  IF loc'[w].comment = stored
                    THEN pc'[w] = "approve_mark"
                    ELSE pc'[w] = "payment comment mismatch"
          /\ ApprovalRefused(w)
             => UNCHANGED <<payments, subscriptions, devices>>]_vars

\* an approval was refused for its comment, and the payment is in review
\* as before
C37_RefusedForComment ==
    \E w \in Workers :
        /\ pc[w] = "payment comment mismatch"
        /\ payments[loc[w].pay].status = "pending_review"
        /\ payments[loc[w].pay].payment_comment # loc[w].comment
        /\ subscriptions = <<>>

\* this step approves or rejects a payment
PaymentReviewed ==
    \E i \in 1..Len(payments) :
        /\ payments'[i].status \in {"approved", "rejected"}
        /\ payments'[i].status # payments[i].status

\* this step creates a subscription or extends one
SubscriptionGranted ==
    \/ Len(subscriptions') > Len(subscriptions)
    \/ \E i \in 1..Len(subscriptions) :
           \/ subscriptions'[i].ends_at # subscriptions[i].ends_at
           \/ subscriptions'[i].duration_days # subscriptions[i].duration_days

\* goroutine w starts the approve or reject callback of a user who is not
\* in the admin list
CallbackOfNonAdmin(w) ==
    /\ ~Busy(w)
    /\ <<pc'[w], loc'[w]>> # <<pc[w], loc[w]>>
    /\ loc'[w].op \in {"approve", "reject"}
    /\ loc'[w].caller \notin Admins

\* C38: a payment is approved or rejected, and a subscription created or
\* extended, only by a step of an approve or reject callback whose caller is
\* in the admin list; the callback of any other user is refused and changes
\* no payment, no subscription and no device.
C38_OnlyAdminsReview ==
    [][/\ (PaymentReviewed \/ SubscriptionGranted)
          => \E w \in Workers :
                 /\ pc[w] \in {"approve_mark", "reject_mark",
                              "extend_write", "create_sub"}
                 /\ pc'[w] # pc[w]
                 /\ loc[w].caller \in Admins
       /\ \A w \in Workers :
              CallbackOfNonAdmin(w)
              => /\ pc'[w] = "not an admin"
                 /\ UNCHANGED <<payments, subscriptions, devices>>]_vars

\* a user outside the admin list sent an approve callback for a payment in
\* review and was refused, while an admin's approval has granted another
\* subscription
C38_NonAdminRefused ==
    \E w \in Workers :
        /\ pc[w] = "not an admin"
        /\ loc[w].caller \in Users \ Admins
        /\ \E i \in 1..Len(payments) : payments[i].status = "pending_review"
        /\ \E i \in 1..Len(payments) : payments[i].status = "approved"
        /\ subscriptions # <<>>

\* goroutine w runs the UPDATE of ExtendSubscription in this step
Extends(w) == pc[w] = "extend_write" /\ pc'[w] # pc[w]

\* C39: the extension of a subscription leaves the row's device limit, owning
\* user and start time as they were, whatever device count the approved
\* payment has; it changes no other subscription and no Device row.
C39_ExtensionKeepsLimitOwnerAndStart ==
    [][\A w \in Workers :
          Extends(w)
          => /\ Len(subscriptions') = Len(subscriptions)
             /\ \A i \in 1..Len(subscriptions) :
                    IF i = loc[w].sub
                    THEN /\ subscriptions'[i].device_limit
                              = subscriptions[i].device_limit
                         /\ subscriptions'[i].user_id = subscriptions[i].user_id
                         /\ subscriptions'[i].starts_at
                              = subscriptions[i].starts_at
                    ELSE subscriptions'[i] = subscriptions[i]
             /\ devices' = devices]_vars

\* a subscription was extended by a payment bought for another device count
\* than its device limit, while the user holds a device
C39_ExtendedByOtherDeviceCount ==
    \E i \in 1..Len(subscriptions), p \in 1..Len(payments) :
        /\ payments[p].status = "approved"
        /\ payments[p].user_id = subscriptions[i].user_id
        /\ payments[p].device_count # subscriptions[i].device_limit
        /\ subscriptions[i].duration_days > payments[p].duration_days
        /\ subscriptions[i].ends_at
             > subscriptions[i].starts_at + payments[p].duration_days
        /\ devices # <<>>

\* the create call of w ends well in this step: its device is created with
\* the address the allocator gave it
DeviceCreated(w) == pc[w] = "postcommit" /\ pc'[w] = "ok"

\* the allocator hands the call of w an address in this step
Allocates(w) == pc[w] = "begin" /\ pc'[w] = "precheck"

\* addresses of peers on the live interface whose device is revoked in the
\* ledger
LiveAddressesOfRevoked ==
    {p.ip : p \in {q \in wgPeers :
                      \E i \in 1..Len(devices) :
                          /\ devices[i].peer_public_key = q.key
                          /\ devices[i].revoked_at # Null}}

\* C40: the address of a newly created device is not, at its creation, the
\* allowed address of another peer on the live interface; and the allocator
\* does not hand out the address of a device revoked in the ledger while its
\* peer is on the live interface.
C40_NewAddressNotOnLiveInterface ==
    [][\A w \in AllocWorkers :
          /\ DeviceCreated(w)
             => \A p \in wgPeers : p.ip = loc[w].ip => p.key = loc[w].key
          /\ Allocates(w)
             => loc'[w].ip \notin LiveAddressesOfRevoked]_vars

============================================================================
